---- MODULE Spec2Model ----
(***************************************************************************)
(* Persona chat system: PersonaFactory (catalog of personas/categories and *)
(* prompt composition), the console sessions built on it, and the          *)
(* problem-solving battle.                                                 *)
(*                                                                         *)
(* Strings are modelled as sequences of string tokens.  Keys and agent     *)
(* names are tokenised canonically: every underscore is a token of its     *)
(* own and every maximal underscore-free run is one token, so two keys or  *)
(* names are equal as Python strings iff their token sequences are equal.  *)
(* Long Japanese prose blocks are single opaque tokens (romanised).        *)
(***************************************************************************)
EXTENDS Integers, Sequences, FiniteSets, TLC

VARIABLES
    program,     \* which source file's classes are in use: "basic" | "solution"
    personas,    \* PersonaFactory._personas: dict, as a sequence of <<key, PersonaConfig>>
    categories,  \* PersonaFactory._categories: dict, as a sequence of <<key, display_name>>
    ret,         \* the last PersonaFactory API call made by a client and its outcome
    reglog,      \* the client's register_* calls so far, in call order: <<kind, key>>
    api_key,     \* os.getenv("OPENAI_API_KEY"): "None" when absent, else the string
    model_client,\* number of OpenAIChatCompletionClient objects constructed
    pc,          \* where main() is blocked (an input() or an await) or how it ended
    event,       \* what the last step consumed: a typed line, a returned or raised call
    frame,       \* local variables of the flow in progress
    pending,     \* the run() call being awaited, NoPending when there is none
    calls,       \* run() calls issued by the flow in progress, in issue order
    printed,     \* lines printed by the last step, in order (input prompts included)
    nagents,     \* number of AssistantAgent objects constructed; the n-th has id n
    sessions,    \* number of flows started from the main menu
    failed       \* ids of the agents whose run() call raised

factoryVars == <<personas, categories>>
harnessVars == <<ret, reglog>>
consoleVars == <<api_key, model_client, pc, event, frame, pending, calls, printed, nagents, sessions, failed>>
vars == <<program, personas, categories, ret, reglog, api_key, model_client, pc, event, frame,
          pending, calls, printed, nagents, sessions, failed>>

----------------------------------------------------------------------------
(* Bounds *)

MaxRegistrations == 2

\* flows started from the main menu in one run of a console program
MaxSessions == 2

\* lines sent to the agent in one chat loop
MaxChatTurns == 2

\* RoundRobinGroupChat(agents, max_turns=6)
MaxTurns == 6

----------------------------------------------------------------------------
(* Python dict: insertion-ordered map; assignment to an existing key keeps *)
(* the key's position and replaces the value.                              *)

DictKeys(d) == [i \in 1..Len(d) |-> d[i][1]]

DictHas(d, k) == \E i \in 1..Len(d) : d[i][1] = k

DictGet(d, k) == d[CHOOSE i \in 1..Len(d) : d[i][1] = k][2]

DictSetAppend(d, k, v) == Append(d, <<k, v>>)

DictSetMoveToEnd(d, k, v) ==
    Append(SelectSeq(d, LAMBDA e : e[1] # k), <<k, v>>)

DictSet(d, k, v) ==
    IF DictHas(d, k)
    THEN [i \in 1..Len(d) |-> IF d[i][1] = k THEN <<k, v>> ELSE d[i]]
    ELSE Append(d, <<k, v>>)

DictItems(d) == d

\* del d[k]
DictDel(d, k) == SelectSeq(d, LAMBDA e : e[1] # k)

\* the dict object itself, handed out: what is done to it is done to d
DictAlias(d) == [shared |-> TRUE, items |-> d]

\* d.copy(): a new dict object with the entries of d, in their order; what
\* is done to it afterwards is not done to d
DictCopy(d) == [shared |-> FALSE, items |-> d]

----------------------------------------------------------------------------
(* Default catalog of persona-simulation-system.py *)

von_neumann == <<"von", "_", "neumann">>
edison      == <<"edison">>

DefaultPersonaKeys ==
    << von_neumann, edison, <<"steve", "_", "jobs">>, <<"einstein">>,
       <<"zhuge", "_", "liang">>, <<"sima", "_", "yi">>, <<"oda", "_", "nobunaga">>,
       <<"sakamoto", "_", "ryoma">>, <<"black", "_", "jack">> >>

\* display labels, romanised
DefaultCategories ==
    << << <<"future">>,   <<"Mirai">> >>,
       << <<"business">>, <<"Bijinesu">> >>,
       << <<"politics">>, <<"Seiji">> >>,
       << <<"medical">>,  <<"Iryou">> >>,
       << <<"sp500">>,    <<"S&P 500">> >>,
       << <<"nikkei">>,   <<"Nikkei Heikin">> >>,
       << <<"nasdaq">>,   <<"NASDAQ">> >>,
       << <<"usdjpy">>,   <<"Bei-Doru/En">> >> >>

DefaultCategoryKeys == {DefaultCategories[i][1] : i \in 1..Len(DefaultCategories)}

\* every default persona carries a prompt for each of the eight categories
BasicPersonaConfig(k) ==
    [ name             |-> k,
      display_name     |-> <<"display_name:">> \o k,
      base_traits      |-> <<"base_traits:">> \o k,
      category_prompts |-> [c \in DefaultCategoryKeys |->
                               <<"category_prompt:">> \o k \o <<":">> \o c] ]

DefaultPersonas ==
    [i \in 1..Len(DefaultPersonaKeys) |->
        <<DefaultPersonaKeys[i], BasicPersonaConfig(DefaultPersonaKeys[i])>>]

----------------------------------------------------------------------------
(* persona-simulation-system_solution.py: the enhanced PersonaConfig *)

\* ProblemType members and their values (romanised)
ProblemTypeValue ==
    [ STRATEGIC   |-> "senryakuteki mondai",
      OPERATIONAL |-> "unyoujou no mondai",
      TECHNICAL   |-> "gijutsuteki mondai",
      HUMAN       |-> "ningen kankei no mondai",
      FINANCIAL   |-> "zaimuteki mondai",
      CREATIVE    |-> "souzouteki kadai",
      ANALYTICAL  |-> "bunsekiteki kadai",
      ETHICAL     |-> "rinriteki mondai" ]

ProblemTypeMembers == DOMAIN ProblemTypeValue

ProblemSolvingFramework(name, steps, key_questions, evaluation_criteria, tools) ==
    [ name                |-> name,
      steps               |-> steps,
      key_questions       |-> key_questions,
      evaluation_criteria |-> evaluation_criteria,
      tools               |-> tools ]

EnhancedPersonaConfig(name, display_name, base_traits, category_prompts, framework, style, strengths, process, techniques) ==
    [ name                      |-> name,
      display_name              |-> display_name,
      base_traits               |-> base_traits,
      category_prompts          |-> category_prompts,
      problem_solving_framework |-> framework,
      problem_solving_style     |-> style,
      strengths                 |-> strengths,
      decision_making_process   |-> process,
      signature_techniques      |-> techniques ]

----------------------------------------------------------------------------
(* Outcomes of calls: a returned value or a raised exception *)

Ok(v) == [ok |-> TRUE, value |-> v, error |-> [type |-> "none", msg |-> <<>>]]

Raise(type, msg) == [ok |-> FALSE, value |-> "None", error |-> [type |-> type, msg |-> msg]]

AssistantAgent(name, system_message) ==
    [name |-> name, system_message |-> system_message]

----------------------------------------------------------------------------
(* Agent naming templates *)

CategoryAgentName(persona_name, category_key) ==
    persona_name \o <<"_">> \o category_key

ProblemSolverAgentNameShort(persona_name) ==
    persona_name \o <<"_", "solver">>

ProblemSolverAgentName(persona_name) ==
    persona_name \o <<"_", "problem", "_", "solver">>

SpecialistAgentNameNoSuffix(persona_name, category_key) ==
    persona_name \o <<"_">> \o category_key

SpecialistAgentName(persona_name, category_key) ==
    persona_name \o <<"_">> \o category_key \o <<"_", "specialist">>

BattlerAgentName(persona_name) ==
    persona_name \o <<"_", "battler">>

----------------------------------------------------------------------------
(* PersonaFactory: prompt composition and agent construction *)

\* f"{label}について専門的に回答してください。"
FallbackPrompt(label) == label \o <<" ni tsuite senmonteki ni kaitou shite kudasai.">>

\* f"{label}の問題を専門的に解決してください。"
SpecialistFallbackPrompt(label) == label \o <<" no mondai wo senmonteki ni kaiketsu shite kudasai.">>

UnknownPersona(persona_key) == Raise("ValueError", <<"Unknown persona: ">> \o persona_key)

UnknownCategory(category_key) == Raise("ValueError", <<"Unknown category: ">> \o category_key)

create_agent_category_first(persona_key, category_key) ==
    IF ~DictHas(categories, category_key) THEN UnknownCategory(category_key)
    ELSE IF ~DictHas(personas, persona_key) THEN UnknownPersona(persona_key)
    ELSE LET persona == DictGet(personas, persona_key)
             category_prompt ==
                 IF category_key \in DOMAIN persona.category_prompts
                 THEN persona.category_prompts[category_key]
                 ELSE FallbackPrompt(DictGet(categories, category_key))
         IN  Ok(AssistantAgent(CategoryAgentName(persona.name, category_key),
                   persona.base_traits \o <<"\n", "\n">> \o category_prompt))

create_agent_strict(persona_key, category_key) ==
    IF ~DictHas(personas, persona_key) THEN UnknownPersona(persona_key)
    ELSE IF ~DictHas(categories, category_key) THEN UnknownCategory(category_key)
    ELSE LET persona == DictGet(personas, persona_key) IN
         IF category_key \notin DOMAIN persona.category_prompts
         THEN Raise("KeyError", category_key)
         ELSE Ok(AssistantAgent(CategoryAgentName(persona.name, category_key),
                     persona.base_traits \o <<"\n", "\n">>
                         \o persona.category_prompts[category_key]))

create_agent(persona_key, category_key) ==
    IF ~DictHas(personas, persona_key) THEN UnknownPersona(persona_key)
    ELSE IF ~DictHas(categories, category_key) THEN UnknownCategory(category_key)
    ELSE LET persona == DictGet(personas, persona_key)
             category_prompt ==
                 IF category_key \in DOMAIN persona.category_prompts
                 THEN persona.category_prompts[category_key]
                 ELSE FallbackPrompt(DictGet(categories, category_key))
             system_message == persona.base_traits \o <<"\n", "\n">> \o category_prompt
         IN  Ok(AssistantAgent(CategoryAgentName(persona.name, category_key),
                               system_message))

get_available_personas ==
    [i \in 1..Len(personas) |-> <<personas[i][1], personas[i][2].display_name>>]

get_available_categories ==
    [i \in 1..Len(categories) |-> <<categories[i][1], categories[i][2]>>]

----------------------------------------------------------------------------
(* persona-simulation-system_solution.py: problem-solving and specialised  *)
(* agents.  Literal prompt text between the interpolated fields is kept as *)
(* one romanised token per literal segment.                                *)

RECURSIVE JoinWith(_, _)
\* sep.join(texts)
JoinWith(texts, sep) ==
    IF Len(texts) = 0 THEN <<>>
    ELSE IF Len(texts) = 1 THEN texts[1]
    ELSE texts[1] \o sep \o JoinWith(Tail(texts), sep)

NL == <<"\n">>

\* f"{i+1}. {step}" for i, step in enumerate(steps)
NumberedItems(items) ==
    [i \in 1..Len(items) |-> <<ToString(i), ". ">> \o items[i]]

\* the items in reverse order
DashedItemsReversed(items) ==
    [i \in 1..Len(items) |-> <<"- ">> \o items[Len(items) + 1 - i]]

\* f"- {q}" for q in items
DashedItems(items) ==
    [i \in 1..Len(items) |-> <<"- ">> \o items[i]]

\* ', '.join([pt.value for pt in strengths])
StrengthsText(strengths) ==
    JoinWith([i \in 1..Len(strengths) |-> <<ProblemTypeValue[strengths[i]]>>], <<", ">>)

ProblemSolvingSystemMessage(persona) ==
    LET fw == persona.problem_solving_framework IN
       persona.base_traits \o NL \o NL
    \o <<"[mission]">> \o NL
    \o <<"anata wa ">> \o persona.display_name \o <<" to shite mondai wo kaiketsu shimasu.">> \o NL \o NL
    \o persona.problem_solving_style \o NL \o NL
    \o <<"[framework: ">> \o fw.name \o <<"]">> \o NL
    \o <<"steps:">> \o NL
    \o JoinWith(NumberedItems(fw.steps), NL) \o NL \o NL
    \o <<"[key questions]">> \o NL
    \o JoinWith(DashedItems(fw.key_questions), NL) \o NL \o NL
    \o <<"[evaluation criteria]">> \o NL
    \o JoinWith(DashedItems(fw.evaluation_criteria), NL) \o NL \o NL
    \o <<"[tools]">> \o NL
    \o JoinWith(DashedItems(fw.tools), NL) \o NL \o NL
    \o <<"[decision making process]">> \o NL
    \o persona.decision_making_process \o NL \o NL
    \o <<"[strengths]">> \o NL
    \o StrengthsText(persona.strengths) \o NL \o NL
    \o <<"[principles]">> \o NL
    \o <<"1. understand the problem">> \o NL
    \o <<"2. ">> \o persona.display_name \o <<" dokuji no shiten de bunseki">> \o NL
    \o <<"3. concrete solutions">> \o NL
    \o <<"4. risks and countermeasures">> \o NL
    \o <<"5. encourage action">> \o NL \o NL
    \o <<"kanarazu ">> \o persona.display_name \o <<" no jinkaku wo saigen shite kudasai.">> \o NL

create_problem_solving_agent(persona_key) ==
    IF ~DictHas(personas, persona_key) THEN UnknownPersona(persona_key)
    ELSE LET persona == DictGet(personas, persona_key) IN
         Ok(AssistantAgent(ProblemSolverAgentName(persona.name),
                           ProblemSolvingSystemMessage(persona)))

SpecializedSystemMessage(persona, label, category_prompt) ==
       persona.base_traits \o NL \o NL
    \o <<"[">> \o label \o <<" mondai kaiketsu no supesharisuto to shite]">> \o NL \o NL
    \o category_prompt \o NL \o NL
    \o persona.problem_solving_style \o NL \o NL
    \o <<"[approach]">> \o NL
    \o <<"kono kategori no mondai ni wa, ">> \o persona.problem_solving_framework.name
    \o <<" wo tekiyou shi,">> \o NL
    \o persona.display_name \o <<" naradewa no shiten de kaiketsusaku wo michibikimasu.">> \o NL \o NL
    \o <<"[decision criteria]">> \o NL
    \o persona.decision_making_process \o NL \o NL
    \o <<"kanarazu ">> \o persona.display_name \o <<" to shite kaiketsu shite kudasai.">> \o NL

create_specialized_agent(persona_key, category_key) ==
    IF ~DictHas(personas, persona_key) THEN UnknownPersona(persona_key)
    ELSE IF ~DictHas(categories, category_key) THEN UnknownCategory(category_key)
    ELSE LET persona == DictGet(personas, persona_key)
             category_prompt ==
                 IF category_key \in DOMAIN persona.category_prompts
                 THEN persona.category_prompts[category_key]
                 ELSE SpecialistFallbackPrompt(DictGet(categories, category_key))
         IN  Ok(AssistantAgent(SpecialistAgentName(persona.name, category_key),
                   SpecializedSystemMessage(persona, DictGet(categories, category_key),
                                            category_prompt)))

----------------------------------------------------------------------------
(* PersonaFactory: registration *)

register_persona_append(persona_config) ==
    DictSetAppend(personas, persona_config.name, persona_config)

register_persona_move_to_end(persona_config) ==
    DictSetMoveToEnd(personas, persona_config.name, persona_config)

register_persona(persona_config) ==
    DictSet(personas, persona_config.name, persona_config)

register_category(key, display_name) ==
    DictSet(categories, key, display_name)

----------------------------------------------------------------------------
(* A client of the PersonaFactory API: the values it passes in *)

ClientPersonaNames == {<<"alpha">>, edison}

ClientDisplayNames == {<<"Display One">>, <<"Display Two">>}

\* prompts a client persona may carry: none at all, or one for category "x"
ClientCategoryPrompts == { <<>>, (<<"x">> :> <<"client prompt for x">>) }

ClientFramework ==
    ProblemSolvingFramework(<<"client method">>,
        << <<"first step">>, <<"second step">> >>,
        << <<"a question">> >>,
        << <<"a criterion">> >>,
        << <<"a tool">> >>)

ClientPersonaConfig(n, d, cp) ==
    IF program = "basic"
    THEN [ name |-> n, display_name |-> d,
           base_traits |-> <<"base_traits:">> \o n, category_prompts |-> cp ]
    ELSE EnhancedPersonaConfig(n, d, <<"base_traits:">> \o n, cp, ClientFramework,
             <<"client style">>, <<"STRATEGIC", "ETHICAL">>,
             <<"client process">>, << <<"client technique">> >>)

ClientPersonas ==
    { ClientPersonaConfig(n, d, cp) :
        n \in ClientPersonaNames, d \in ClientDisplayNames, cp \in ClientCategoryPrompts }

problem_solver == <<"problem", "_", "solver">>

ClientCategories ==
    { << <<"x">>, <<"X">> >>, << <<"x">>, <<"Y">> >>,
      << <<"battler">>, <<"B">> >>, << problem_solver, <<"PS">> >> }

\* keys a client may ask for; ghost and nope are never registered
QueryPersonaKeys == {edison, <<"alpha">>, <<"ghost">>}

QueryCategoryKeys == {<<"future">>, <<"x">>, <<"battler">>, problem_solver, <<"nope">>}

NoCall ==
    [ op |-> "none", args |-> <<>>, out |-> Ok("None"),
      replaced |-> FALSE, before |-> <<>>, again |-> FALSE, prev |-> <<>> ]

Call(op, args, out) == [NoCall EXCEPT !.op = op, !.args = args, !.out = out]

----------------------------------------------------------------------------
(* Console: lines typed by the operator.  A line is a sequence of          *)
(* one-character strings.                                                  *)

DigitValue ==
    ("0" :> 0) @@ ("1" :> 1) @@ ("2" :> 2) @@ ("3" :> 3) @@ ("4" :> 4) @@
    ("5" :> 5) @@ ("6" :> 6) @@ ("7" :> 7) @@ ("8" :> 8) @@ ("9" :> 9)

RECURSIVE StripLeft(_)
StripLeft(s) == IF Len(s) > 0 /\ s[1] = " " THEN StripLeft(Tail(s)) ELSE s

RECURSIVE StripRight(_)
StripRight(s) ==
    IF Len(s) > 0 /\ s[Len(s)] = " " THEN StripRight(SubSeq(s, 1, Len(s) - 1)) ELSE s

RECURSIVE DecimalValue(_)
DecimalValue(digits) ==
    IF Len(digits) = 0 THEN 0
    ELSE 10 * DecimalValue(SubSeq(digits, 1, Len(digits) - 1))
             + DigitValue[digits[Len(digits)]]

\* a parser that skips what is not a digit and never raises
\* int(line): surrounding blanks are ignored, one sign is allowed, the rest
\* must be one or more decimal digits; anything else raises ValueError
ParseInt(line) ==
    LET t      == StripRight(StripLeft(line))
        signed == Len(t) > 0 /\ t[1] \in {"+", "-"}
        digits == IF signed THEN Tail(t) ELSE t
    IN  IF Len(digits) = 0 \/ \E i \in 1..Len(digits) : digits[i] \notin DOMAIN DigitValue
        THEN Raise("ValueError", <<"invalid literal for int()">>)
        ELSE Ok(IF signed /\ t[1] = "-" THEN 0 - DecimalValue(digits)
                ELSE DecimalValue(digits))

LowerChar ==
    ("E" :> "e") @@ ("X" :> "x") @@ ("I" :> "i") @@ ("T" :> "t") @@
    ("Q" :> "q") @@ ("U" :> "u") @@ ("H" :> "h")

\* str.lower()
Lower(line) ==
    [i \in 1..Len(line) |-> IF line[i] \in DOMAIN LowerChar THEN LowerChar[line[i]]
                            ELSE line[i]]

MainMenuLines ==
    { <<"1">>, <<"2">>, <<"3">>, <<"4">>, <<"0">>, <<"5">>, <<"a", "b", "c">>, <<>>,
      <<" ", "4">>, <<"-", "1">> }

PersonaLines ==
    { <<"1">>, <<"2">>, <<"9">>, <<"0">>, <<"1", "0">>, <<"9", "9">>,
      <<"a", "b", "c">>, <<>>, <<"+", "2">>, <<"-", "1">>, <<"2", "a">> }

CategoryLines ==
    { <<"1">>, <<"8">>, <<"0">>, <<"9">>, <<"9", "9">>, <<"a", "b", "c">>, <<>>,
      <<"8", " ">>, <<"-", "8">> }

ChatLines ==
    { <<"e", "x", "i", "t">>, <<"E", "X", "I", "T">>, <<"Q", "u", "i", "t">>,
      <<"q", "u", "i", "t">>, <<>>, <<"h", "i">>, <<"e", "x", "i", "t", " ">> }

\* what a run() call may return, and what it may raise: any Exception
Responses == { <<"reply A">>, <<"reply B">> }

RespondErrors ==
    { [type |-> "ValueError", msg |-> <<"malformed response">>],
      [type |-> "RuntimeError", msg |-> <<"upstream failure">>] }

----------------------------------------------------------------------------
(* Console: printed lines (romanised) *)

MissingKeyDiagnostic == <<"Error: OPENAI_API_KEY ga settei sarete imasen">>
MainMenuBanner  == <<"[main menu 1-4]">>
MainMenuPrompt  == <<"input: sentaku shite kudasai (1-4): ">>
EnterNumber     == <<"Suuji wo nyuuryoku shite kudasai.">>
InvalidChoice   == <<"Mukou na sentaku desu. Mou ichido otameshi kudasai.">>
PersonaPrompt   == <<"input: perusona wo sentaku shite kudasai (bangou): ">>
CategoryPrompt  == <<"input: kategori wo sentaku shite kudasai (bangou): ">>
ChatPrompt      == <<"input: anata: ">>
ErrorLine(e)    == <<"Error ga hassei shimashita: ">> \o e.msg

\* display_personas / display_categories: the numbered listing
PersonaListing ==
    <<"[personas]">> \o JoinWith([i \in 1..Len(get_available_personas) |->
          <<ToString(i), ". ">> \o get_available_personas[i][2]], NL)

CategoryListing ==
    <<"[categories]">> \o JoinWith([i \in 1..Len(get_available_categories) |->
          <<ToString(i), ". ">> \o get_available_categories[i][2]], NL)

----------------------------------------------------------------------------
(* Console: state *)

NoAgent == [id |-> 0, name |-> <<>>, system_message |-> <<>>]

NoPending == [agent |-> 0, name |-> <<>>, task |-> <<>>]

NoFrame ==
    [ flow |-> "none", persona_key |-> <<>>, category_key |-> <<>>,
      persona_name |-> <<>>, agent |-> NoAgent, agents |-> <<>>,
      agent_names |-> <<>>, index |-> 0, script |-> <<>>,
      selected |-> <<>>, problem |-> <<>>, solutions |-> <<>>,
      analysis |-> <<>>, best |-> <<>>, problem_history |-> <<>>, solution_history |-> <<>>,
      experts |-> <<>>, caller |-> "client" ]

\* at is the place (pc) where the step started
NoEvent == [at |-> "none", kind |-> "none", data |-> <<>>]

Event(kind, data) == [at |-> pc, kind |-> kind, data |-> data]

\* no console program is running (the factory is used through its API)
NoConsole ==
    /\ api_key = "None"
    /\ model_client = 0
    /\ pc = "none"
    /\ event = NoEvent
    /\ frame = NoFrame
    /\ pending = NoPending
    /\ calls = <<>>
    /\ printed = <<>>
    /\ nagents = 0
    /\ sessions = 0
    /\ failed = {}

\* an agent object built from a factory result: the next id is taken
NewAgent(out) ==
    [id |-> nagents + 1, name |-> out.value.name, system_message |-> out.value.system_message]

RunCall(agent, task) == [agent |-> agent.id, name |-> agent.name, task |-> task]

----------------------------------------------------------------------------
(* Console programs: persona-simulation-system.py main() *)

ApiKeys == {"None", "", "sk-test"}

KeyPresentUnchecked(key) == TRUE

\* not os.getenv("OPENAI_API_KEY") is false
KeyPresent(key) == key # "None" /\ key # ""

\* strengths=[...] of the nine personas built by _register_enhanced_personas
EnhancedDefaultStrengths ==
    << <<"ANALYTICAL", "STRATEGIC", "TECHNICAL", "FINANCIAL">>,
       <<"TECHNICAL", "OPERATIONAL", "CREATIVE", "FINANCIAL">>,
       <<"CREATIVE", "STRATEGIC", "HUMAN", "TECHNICAL">>,
       <<"ANALYTICAL", "STRATEGIC", "CREATIVE", "ETHICAL">>,
       <<"STRATEGIC", "HUMAN", "OPERATIONAL", "POLITICAL">>,
       <<"STRATEGIC", "FINANCIAL", "OPERATIONAL", "ANALYTICAL">>,
       <<"STRATEGIC", "OPERATIONAL", "CREATIVE", "POLITICAL">>,
       <<"HUMAN", "STRATEGIC", "CREATIVE", "POLITICAL">>,
       <<"TECHNICAL", "ANALYTICAL", "CREATIVE", "ETHICAL">> >>

\* ProblemType.<member>: AttributeError when the enumeration has no such member
register_enhanced_personas ==
    LET bad == { <<i, j>> \in (1..Len(EnhancedDefaultStrengths)) \X (1..4) :
                    EnhancedDefaultStrengths[i][j] \notin ProblemTypeMembers }
    IN  IF bad = {} THEN Ok("None")
        ELSE LET first == CHOOSE b \in bad :
                             \A c \in bad : b[1] < c[1] \/ (b[1] = c[1] /\ b[2] <= c[2])
             IN  Raise("AttributeError", <<EnhancedDefaultStrengths[first[1]][first[2]]>>)

Traceback(e) == <<"Traceback: ", e.type, ": ">> \o e.msg

\* every console variable of the next state
Goto(ev, pc2, frame2, pending2, calls2, printed2, nagents2, sessions2, failed2) ==
    /\ event' = ev
    /\ pc' = pc2
    /\ frame' = frame2
    /\ pending' = pending2
    /\ calls' = calls2
    /\ printed' = printed2
    /\ nagents' = nagents2
    /\ sessions' = sessions2
    /\ failed' = failed2

\* main(): the startup check and the construction of the UI
Startup ==
    /\ pc = "start"
    /\ UNCHANGED <<program, api_key, harnessVars>>
    /\ LET ev == NoEvent IN
       IF ~KeyPresent(api_key)
       THEN /\ Goto(ev, "returned", frame, pending, calls, <<MissingKeyDiagnostic>>,
                    nagents, sessions, failed)
            /\ UNCHANGED <<personas, categories, model_client>>
       ELSE IF program = "basic"
       THEN /\ personas' = DefaultPersonas
            /\ categories' = DefaultCategories
            /\ model_client' = model_client + 1
            /\ Goto(ev, "MainMenu", frame, pending, calls, <<MainMenuBanner, MainMenuPrompt>>,
                    nagents, sessions, failed)
       ELSE IF program = "solution"
       THEN IF register_enhanced_personas.ok
            THEN /\ categories' = DefaultCategories
                 /\ model_client' = model_client + 1
                 /\ Goto(ev, "MainMenu", frame, pending, calls,
                         <<MainMenuBanner, MainMenuPrompt>>, nagents, sessions, failed)
                 /\ UNCHANGED personas
            ELSE /\ Goto(ev, "crashed", frame, pending, calls,
                         <<Traceback(register_enhanced_personas.error)>>,
                         nagents, sessions, failed)
                 /\ UNCHANGED <<personas, categories, model_client>>
       ELSE /\ Goto(ev, "example_choice", frame, pending, calls,
                    <<<<"[examples 1-4]">>, <<"input: sentaku (1-4): ">>>>, nagents, sessions, failed)
            /\ UNCHANGED <<personas, categories, model_client>>

\* the except clauses of main()'s loop, then the menu again
MainHandles(e) ==
    IF e.type = "ValueError"
    THEN <<EnterNumber, MainMenuBanner, MainMenuPrompt>>
    ELSE <<ErrorLine(e), MainMenuBanner, MainMenuPrompt>>

BackToMainMenu(ev, lines, failed2) ==
    Goto(ev, "MainMenu", NoFrame, NoPending, calls, lines, nagents, sessions, failed2)

MainMenuInput ==
    /\ pc = "MainMenu"
    /\ UNCHANGED <<program, api_key, harnessVars, factoryVars, model_client>>
    /\ \E line \in MainMenuLines :
        LET ev == Event("line", line) IN
        LET r == ParseInt(line) IN
        IF ~r.ok THEN BackToMainMenu(ev, MainHandles(r.error), failed)
        ELSE IF r.value \in {1, 2}
        THEN /\ sessions < MaxSessions
             /\ Goto(ev, "select_persona",
                     [NoFrame EXCEPT !.flow = IF r.value = 1 THEN "chat" ELSE "scenario"],
                     NoPending, <<>>, <<PersonaListing, PersonaPrompt>>,
                     nagents, sessions + 1, failed)
        ELSE IF r.value = 3
        THEN /\ sessions < MaxSessions
             /\ Goto(ev, "select_category", [NoFrame EXCEPT !.flow = "discussion"],
                     NoPending, <<>>, <<CategoryListing, CategoryPrompt>>,
                     nagents, sessions + 1, failed)
        ELSE IF r.value = 4
        THEN Goto(ev, "exited", NoFrame, NoPending, calls, <<<<"Shisutemu wo shuuryou shimasu.">>>>,
                  nagents, sessions, failed)
        ELSE BackToMainMenu(ev, <<InvalidChoice, MainMenuBanner, MainMenuPrompt>>, failed)

\* the range test without its lower bound: an index below 1 counts from the end
SelectionNoLowerBound(line, n) ==
    LET r == ParseInt(line) IN
    IF ~r.ok THEN [choice |-> 0, says |-> EnterNumber]
    ELSE IF r.value <= n
    THEN [choice |-> IF r.value >= 1 THEN r.value ELSE IF n + r.value >= 1 THEN n + r.value
                     ELSE 1,
          says |-> <<>>]
    ELSE [choice |-> 0, says |-> InvalidChoice]

\* select_persona / select_category: the index chosen, 0 when the line is refused
Selection(line, n) ==
    LET r == ParseInt(line) IN
    IF ~r.ok THEN [choice |-> 0, says |-> EnterNumber]
    ELSE IF 1 <= r.value /\ r.value <= n THEN [choice |-> r.value, says |-> <<>>]
    ELSE [choice |-> 0, says |-> InvalidChoice]

\* a list of questions for every key, registered by a client or not
ScenarioQuestionsForAnyKey(category_key) ==
    [i \in 1..3 |-> <<"question ", ToString(i), " on ">> \o category_key]

\* scenario_questions.get(category_key, [])
ScenarioQuestions(category_key) ==
    IF category_key \in DefaultCategoryKeys
    THEN [i \in 1..3 |-> <<"question ", ToString(i), " on ">> \o category_key]
    ELSE <<>>

\* discussion_topics.get(category, default topic)
DiscussionTopic(category_key) ==
    IF category_key \in DefaultCategoryKeys
    THEN <<"topic on ">> \o category_key
    ELSE <<"Korekara no Nihon ni hitsuyou na mono wa nani ka?">>

\* team = RoundRobinGroupChat(agents, max_turns=6); team.run_stream(task=topic)
TeamCall(agents, task) ==
    [ agent |-> 0, name |-> <<"RoundRobinGroupChat">>, task |-> task,
      participants |-> agents, max_turns |-> MaxTurns ]

SelectPersonaInput ==
    /\ pc = "select_persona"
    /\ UNCHANGED <<program, api_key, harnessVars, factoryVars, model_client>>
    /\ \E line \in PersonaLines :
        LET ev == Event("line", line) IN
        LET listing == get_available_personas
            sel     == Selection(line, Len(listing))
        IN
        IF sel.choice = 0
        THEN Goto(ev, pc, frame, pending, calls, <<sel.says, PersonaPrompt>>,
                  nagents, sessions, failed)
        ELSE LET key == listing[sel.choice][1] IN
        IF frame.flow \in {"chat", "scenario"}
        THEN Goto(ev, "select_category", [frame EXCEPT !.persona_key = key], pending, calls,
                  <<CategoryListing, CategoryPrompt>>, nagents, sessions, failed)
        ELSE \* multi_persona_discussion: one more participant
             LET name  == DictGet(personas, key).display_name
                 out   == create_agent(key, frame.category_key)
             IN
             IF ~out.ok THEN BackToMainMenu(ev, MainHandles(out.error), failed)
             ELSE LET agent  == NewAgent(out)
                      frame2 == [frame EXCEPT !.persona_key = key,
                                              !.persona_name = name,
                                              !.agents = Append(@, agent),
                                              !.agent_names = Append(@, name)]
                  IN
                  IF Len(frame2.agents) < 3
                  THEN Goto(ev, "select_persona", frame2, pending, calls,
                            <<PersonaListing, PersonaPrompt>>, nagents + 1, sessions, failed)
                  ELSE LET call == TeamCall(frame2.agents, DiscussionTopic(frame.category_key)) IN
                       Goto(ev, "stream", frame2, call, Append(calls, call),
                            <<<<"topic: ">> \o call.task>>, nagents + 1, sessions, failed)

SelectCategoryInput ==
    /\ pc = "select_category"
    /\ UNCHANGED <<program, api_key, harnessVars, factoryVars, model_client>>
    /\ \E line \in CategoryLines :
        LET ev == Event("line", line) IN
        LET listing == get_available_categories
            sel     == Selection(line, Len(listing))
        IN
        IF sel.choice = 0
        THEN Goto(ev, pc, frame, pending, calls, <<sel.says, CategoryPrompt>>,
                  nagents, sessions, failed)
        ELSE LET key == listing[sel.choice][1] IN
        IF frame.flow = "discussion"
        THEN Goto(ev, "select_persona", [frame EXCEPT !.category_key = key], pending, calls,
                  <<PersonaListing, PersonaPrompt>>, nagents, sessions, failed)
        ELSE LET name == DictGet(personas, frame.persona_key).display_name
                 out  == create_agent(frame.persona_key, key)
             IN
             IF ~out.ok THEN BackToMainMenu(ev, MainHandles(out.error), failed)
             ELSE LET agent  == NewAgent(out)
                      frame2 == [frame EXCEPT !.category_key = key, !.persona_name = name,
                                              !.agent = agent]
                      qs     == ScenarioQuestions(key)
                  IN
                  IF frame.flow = "chat"
                  THEN Goto(ev, "chat_input", frame2, pending, calls,
                            <<<<"chat with ">> \o name, ChatPrompt>>,
                            nagents + 1, sessions, failed)
                  ELSE IF Len(qs) = 0
                  THEN Goto(ev, "MainMenu", NoFrame, NoPending, calls,
                            <<<<"questions for ">> \o name, MainMenuBanner, MainMenuPrompt>>,
                            nagents + 1, sessions, failed)
                  ELSE LET call == RunCall(agent, qs[1]) IN
                       Goto(ev, "scenario_await", [frame2 EXCEPT !.index = 1], call,
                            Append(calls, call), <<<<"question: ">> \o qs[1]>>,
                            nagents + 1, sessions, failed)

\* user_input.lower() in ['exit', 'quit']
IsExitLineCaseSensitive(line) == line \in {<<"e", "x", "i", "t">>, <<"q", "u", "i", "t">>}

IsExitLine(line) == Lower(line) \in {<<"e", "x", "i", "t">>, <<"q", "u", "i", "t">>}

\* simple_conversation: one line read
ChatInput ==
    /\ pc = "chat_input"
    /\ UNCHANGED <<program, api_key, harnessVars, factoryVars, model_client>>
    /\ \E line \in ChatLines :
        LET ev == Event("line", line) IN
        IF IsExitLine(line)
        THEN BackToMainMenu(ev, <<frame.persona_name \o <<": mata oai shimashou.">>,
                              MainMenuBanner, MainMenuPrompt>>, failed)
        ELSE /\ Len(calls) < MaxChatTurns
             /\ LET call == RunCall(frame.agent, line) IN
                Goto(ev, "chat_await", frame, call, Append(calls, call), <<>>,
                     nagents, sessions, failed)

\* an awaited agent.run() returns
RespondReturns ==
    /\ pc \in {"chat_await", "scenario_await"}
    /\ UNCHANGED <<program, api_key, harnessVars, factoryVars, model_client>>
    /\ \E content \in Responses :
        LET ev == Event("returns", content) IN
        LET said == frame.persona_name \o <<": ">> \o content IN
        IF pc = "chat_await"
        THEN Goto(ev, "chat_input", frame, NoPending, calls, <<said, ChatPrompt>>,
                  nagents, sessions, failed)
        ELSE LET qs == ScenarioQuestions(frame.category_key) IN
             IF frame.index < Len(qs)
             THEN LET call == RunCall(frame.agent, qs[frame.index + 1]) IN
                  Goto(ev, "scenario_await", [frame EXCEPT !.index = @ + 1], call,
                       Append(calls, call), <<said, <<"question: ">> \o call.task>>,
                       nagents, sessions, failed)
             ELSE Goto(ev, "MainMenu", NoFrame, NoPending, calls,
                       <<said, MainMenuBanner, MainMenuPrompt>>, nagents, sessions, failed)

\* an awaited agent.run() or the discussion stream raises: nothing in the
\* flow catches it, so it reaches the except clauses of main()'s loop
RespondRaises ==
    /\ pc \in {"chat_await", "scenario_await", "stream"}
    /\ UNCHANGED <<program, api_key, harnessVars, factoryVars, model_client>>
    /\ \E e \in RespondErrors :
        LET ev == Event("raises", e) IN
        BackToMainMenu(ev, MainHandles(e),
                       IF pending.agent = 0 THEN failed ELSE failed \cup {pending.agent})

\* what the turn coordinator may emit: the task message (source "user"), a
\* message of one of the agents, or an item with no content (the final result)
StreamItems ==
    { [source |-> src, content |-> c] :
        src \in {<<"user">>} \cup {frame.agents[i].name : i \in 1..Len(frame.agents)},
        c \in Responses \cup {<<>>} }

\* every message taken as the first agent's
SpeakerOfFirstAgent(msg) == 1

\* the first agent whose name is the message's source, 0 when there is none
SpeakerOf(msg) ==
    LET hits == {i \in 1..Len(frame.agents) : frame.agents[i].name = msg.source}
    IN  IF hits = {} THEN 0 ELSE CHOOSE i \in hits : \A j \in hits : i <= j

StreamMessage ==
    /\ pc = "stream"
    /\ frame.index < pending.max_turns + 1
    /\ UNCHANGED <<program, api_key, harnessVars, factoryVars, model_client>>
    /\ \E msg \in StreamItems :
        LET ev == Event("message", msg) IN
        LET i == SpeakerOf(msg) IN
        Goto(ev, "stream", [frame EXCEPT !.index = @ + 1], pending, calls,
             IF msg.content # <<>> /\ i # 0
             THEN <<frame.agent_names[i] \o <<": ">> \o msg.content>> ELSE <<>>,
             nagents, sessions, failed)

StreamEnds ==
    /\ pc = "stream"
    /\ UNCHANGED <<program, api_key, harnessVars, factoryVars, model_client>>
    /\ BackToMainMenu(Event("ends", <<>>), <<MainMenuBanner, MainMenuPrompt>>, failed)

----------------------------------------------------------------------------
(* Console programs: autogen.py main() *)

ExampleLines == { <<"1">>, <<"2">>, <<"3">>, <<"4">>, <<"5">>, <<" ", "1">>, <<>> }

\* the examples run for a choice; the choice is compared as a string
ExampleScript(line) ==
    IF line = <<"1">> THEN <<"simple">>
    ELSE IF line = <<"2">> THEN <<"investment">>
    ELSE IF line = <<"3">> THEN <<"discussion">>
    ELSE IF line = <<"4">> THEN <<"simple", "investment", "discussion">>
    ELSE <<>>

ExampleQuestions == [i \in 1..3 |-> <<"example question ", ToString(i)>>]

ExampleAgent(n, name) ==
    [id |-> n, name |-> name, system_message |-> <<"system message of ">> \o name]

\* start the first example of the script, or return from main() when none is left
BeginExample(ev, script, lines) ==
    IF script = <<>>
    THEN /\ Goto(ev, "returned", NoFrame, NoPending, calls, lines, nagents, sessions, failed)
         /\ UNCHANGED model_client
    ELSE /\ model_client' = model_client + 1
         /\ IF script[1] = "simple"
            THEN LET agent == ExampleAgent(nagents + 1, <<"masayoshi", "_", "son">>)
                     call  == RunCall(agent, ExampleQuestions[1])
                 IN  Goto(ev, "example_await",
                          [NoFrame EXCEPT !.flow = "simple", !.script = script,
                                          !.agent = agent, !.index = 1],
                          call, Append(calls, call),
                          lines \o <<<<"question: ">> \o call.task>>,
                          nagents + 1, sessions, failed)
            ELSE IF script[1] = "investment"
            THEN LET agent == ExampleAgent(nagents + 1, <<"investment", "_", "son">>)
                     call  == RunCall(agent, <<"evaluate this startup: pitch">>)
                 IN  Goto(ev, "example_await",
                          [NoFrame EXCEPT !.flow = "investment", !.script = script,
                                          !.agent = agent, !.index = 1],
                          call, Append(calls, call), lines \o <<<<"pitch">>>>,
                          nagents + 1, sessions, failed)
            ELSE LET agents == << ExampleAgent(nagents + 1, <<"masayoshi", "_", "son">>),
                                  ExampleAgent(nagents + 2, <<"cfo">>),
                                  ExampleAgent(nagents + 3, <<"cto">>) >>
                     call   == TeamCall(agents, <<"example topic">>)
                 IN  Goto(ev, "example_stream",
                          [NoFrame EXCEPT !.flow = "discussion", !.script = script,
                                          !.agents = agents],
                          call, Append(calls, call), lines \o <<<<"topic: ">> \o call.task>>,
                          nagents + 3, sessions, failed)

ExampleChoiceInput ==
    /\ pc = "example_choice"
    /\ UNCHANGED <<program, api_key, harnessVars, factoryVars>>
    /\ \E line \in ExampleLines :
        LET ev == Event("line", line) IN
        IF ExampleScript(line) = <<>>
        THEN BeginExample(ev, <<>>, <<InvalidChoice>>)
        ELSE BeginExample(ev, ExampleScript(line), <<>>)

ExampleRespondReturns ==
    /\ pc = "example_await"
    /\ UNCHANGED <<program, api_key, harnessVars, factoryVars>>
    /\ \E content \in Responses :
        LET ev == Event("returns", content) IN
        LET said == <<"Son Masayoshi: ">> \o content IN
        IF frame.flow = "simple" /\ frame.index < Len(ExampleQuestions)
        THEN LET call == RunCall(frame.agent, ExampleQuestions[frame.index + 1]) IN
             /\ Goto(ev, "example_await", [frame EXCEPT !.index = @ + 1], call,
                     Append(calls, call), <<said, <<"question: ">> \o call.task>>,
                     nagents, sessions, failed)
             /\ UNCHANGED model_client
        ELSE BeginExample(ev, Tail(frame.script), <<said>>)

ExampleStreamMessage ==
    /\ pc = "example_stream"
    /\ frame.index < pending.max_turns + 1
    /\ UNCHANGED <<program, api_key, harnessVars, factoryVars, model_client>>
    /\ \E msg \in StreamItems :
        LET ev == Event("message", msg) IN
        Goto(ev, "example_stream", [frame EXCEPT !.index = @ + 1], pending, calls,
             IF msg.content # <<>> THEN <<msg.source \o <<": ">> \o msg.content>> ELSE <<>>,
             nagents, sessions, failed)

ExampleStreamEnds ==
    /\ pc = "example_stream"
    /\ UNCHANGED <<program, api_key, harnessVars, factoryVars>>
    /\ BeginExample(Event("ends", <<>>), Tail(frame.script), <<>>)

\* nothing in autogen.py catches an exception: main() ends with it
ExampleRaises ==
    /\ pc \in {"example_await", "example_stream"}
    /\ UNCHANGED <<program, api_key, harnessVars, factoryVars, model_client>>
    /\ \E e \in RespondErrors :
        LET ev == Event("raises", e) IN
        Goto(ev, "crashed", NoFrame, NoPending, calls, <<Traceback(e)>>, nagents, sessions,
             IF pending.agent = 0 THEN failed ELSE failed \cup {pending.agent})

----------------------------------------------------------------------------
(* The console programs *)

Init ==
    /\ program \in {"basic", "solution", "example"}
    /\ api_key \in ApiKeys
    /\ personas = <<>>
    /\ categories = <<>>
    /\ ret = NoCall
    /\ reglog = <<>>
    /\ model_client = 0
    /\ pc = "start"
    /\ event = NoEvent
    /\ frame = NoFrame
    /\ pending = NoPending
    /\ calls = <<>>
    /\ printed = <<>>
    /\ nagents = 0
    /\ sessions = 0
    /\ failed = {}

Next ==
    \/ Startup
    \/ MainMenuInput
    \/ SelectPersonaInput
    \/ SelectCategoryInput
    \/ ChatInput
    \/ RespondReturns
    \/ RespondRaises
    \/ StreamMessage
    \/ StreamEnds
    \/ ExampleChoiceInput
    \/ ExampleRespondReturns
    \/ ExampleStreamMessage
    \/ ExampleStreamEnds
    \/ ExampleRaises

Spec == Init /\ [][Next]_vars

----------------------------------------------------------------------------
(* The scenario flow of persona-simulation-system.py on a UI whose factory  *)
(* may hold one more category, added by register_category: the persona and  *)
(* the category are selected, then scenario_conversation runs               *)

InitScenario ==
    /\ program = "basic"
    /\ api_key = "sk-test"
    /\ personas = DefaultPersonas
    /\ categories \in {DefaultCategories, DictSet(DefaultCategories, <<"x">>, <<"X">>)}
    /\ ret = NoCall
    /\ reglog = <<>>
    /\ model_client = 1
    /\ pc = "select_persona"
    /\ event = NoEvent
    /\ frame = [NoFrame EXCEPT !.flow = "scenario"]
    /\ pending = NoPending
    /\ calls = <<>>
    /\ printed = <<PersonaListing, PersonaPrompt>>
    /\ nagents = 0
    /\ sessions = 1
    /\ failed = {}

SpecScenario == InitScenario /\
    [][ \/ SelectPersonaInput
        \/ SelectCategoryInput
        \/ RespondReturns
        \/ RespondRaises ]_vars

----------------------------------------------------------------------------
(* ProblemSolvingBattle, driven by a caller that has built the battle from  *)
(* three persona records and a model client                                 *)

\* for i in range(3): the number of participants the UI collects
BattleSize == 3


\* "config not in selected_personas" compares whole records, so two records
\* that differ in the display name only are different participants
BattlePool == { ClientPersonaConfig(n, d, <<>>) : n \in {<<"alpha">>, edison, <<"gamma">>}, d \in ClientDisplayNames }

BattleSelections ==
    { sel \in [1..BattleSize -> BattlePool] :
        \A i, j \in 1..BattleSize : i # j => sel[i] # sel[j] }

BattleProblems == { <<"problem one">>, <<>> }

BattlerSystemMessage(persona) ==
    <<"\n", "Anata wa ">> \o persona.display_name \o <<" desu.", "\n", "\n",
      "Teiji sareta mondai ni taishite, ">> \o persona.problem_solving_framework.name \o
    <<" wo shiyou shite saikou no kaiketsusaku wo teiji shite kudasai.", "\n", "\n",
      "[other figures work on the same problem; show why yours is best]", "\n", "\n">> \o
    persona.problem_solving_style \o <<"\n">>


\* "\n\n".join(f"{name}:\n{sol}" for name, sol in solutions.items())
JudgeTask(solutions) ==
    <<"Tsugi no kaiketsusaku wo hyouka shite kudasai:", "\n", "\n">> \o
    JoinWith([i \in 1..Len(solutions) |-> solutions[i][1] \o <<":", "\n">> \o solutions[i][2]],
             <<"\n", "\n">>)

BattleLoopDoneEarly(index, n) == index + 1 >= n

\* for persona in self.personas: exhausted after index iterations
BattleLoopDone(index, n) == index >= n

\* what battle() does once index iterations of its loop are complete: the
\* next participant's agent and call, or the judge's
BattleProceed(ev, index, solutions, lines) ==
    IF BattleLoopDone(index, Len(frame.selected))
    THEN LET agent == [id |-> nagents + 1, name |-> <<"judge">>,
                       system_message |-> <<"[fair judge: originality, feasibility, effect, risk, sustainability]">>]
             call  == RunCall(agent, JudgeTask(solutions))
         IN  Goto(ev, "judge_await",
                  [frame EXCEPT !.solutions = solutions, !.index = index, !.agent = agent],
                  call, Append(calls, call), lines, nagents + 1, sessions, failed)
    ELSE LET persona == frame.selected[index + 1]
             agent   == [id |-> nagents + 1, name |-> BattlerAgentName(persona.name),
                         system_message |-> BattlerSystemMessage(persona)]
             call    == RunCall(agent, frame.problem)
         IN  Goto(ev, "battle_await",
                  [frame EXCEPT !.solutions = solutions, !.index = index + 1,
                                !.agent = agent, !.persona_name = persona.display_name],
                  call, Append(calls, call),
                  lines \o << <<"[kaiketsusaku of ">> \o persona.display_name \o <<"]">> >>,
                  nagents + 1, sessions, failed)

\* battle(problem) is called
BattleBegin ==
    /\ pc = "battle_ready"
    /\ UNCHANGED <<program, api_key, harnessVars, factoryVars, model_client>>
    /\ BattleProceed(Event("call", frame.problem), 0, <<>>,
                     << <<"battle start">>, <<"problem: ">> \o frame.problem >>)

\* a participant's run() returns (the modelled replies are shorter than the
\* 200 characters the printed excerpt keeps)
BattleSolutionReturns ==
    /\ pc = "battle_await"
    /\ UNCHANGED <<program, api_key, harnessVars, factoryVars, model_client>>
    /\ \E content \in Responses :
        BattleProceed(Event("returns", content), frame.index,
                      DictSet(frame.solutions, frame.persona_name, content),
                      << frame.persona_name \o <<": ">> \o content \o <<"...">> >>)

\* what problem_solving_battle prints of a battle's result
JudgmentLines(judgment) ==
    << <<"=">>, <<"shinsa kekka">>, <<"=">>, judgment >>

\* the judge's run() returns, and battle() returns its result; called from
\* the menu, problem_solving_battle prints the judgment and main() loops
BattleJudgeReturns ==
    /\ pc = "judge_await"
    /\ UNCHANGED <<program, api_key, reglog, factoryVars, model_client>>
    /\ \E content \in Responses :
        /\ ret' = Call("battle", <<frame.problem>>,
                       Ok([problem |-> frame.problem, solutions |-> frame.solutions,
                           judgment |-> content]))
        /\ IF frame.caller = "main"
           THEN BackToMainMenu(Event("returns", content),
                               JudgmentLines(content) \o <<MainMenuBanner, MainMenuPrompt>>,
                               failed)
           ELSE Goto(Event("returns", content), "battle_returned", frame, NoPending, calls,
                     <<>>, nagents, sessions, failed)

\* a battle that goes on to the next participant when a solution call raises
BattleRaisesSkipsParticipant ==
    /\ pc = "battle_await"
    /\ UNCHANGED <<program, api_key, harnessVars, factoryVars, model_client>>
    /\ \E e \in RespondErrors :
        BattleProceed(Event("raises", e), frame.index, frame.solutions, <<>>)

\* a run() raises: battle() catches nothing and neither does
\* problem_solving_battle, so the caller gets the exception; called from the
\* menu, that is the except clauses of main()'s loop
BattleRaises ==
    /\ pc \in {"battle_await", "judge_await"}
    /\ UNCHANGED <<program, api_key, reglog, factoryVars, model_client>>
    /\ \E e \in RespondErrors :
        /\ ret' = Call("battle", <<frame.problem>>, Raise(e.type, e.msg))
        /\ IF frame.caller = "main"
           THEN BackToMainMenu(Event("raises", e), MainHandles(e),
                               failed \cup {pending.agent})
           ELSE Goto(Event("raises", e), "battle_raised", frame, NoPending, calls, <<>>,
                     nagents, sessions, failed \cup {pending.agent})

InitBattle ==
    /\ program = "solution"
    /\ api_key = "sk-test"
    /\ personas = <<>>
    /\ categories = <<>>
    /\ ret = NoCall
    /\ reglog = <<>>
    /\ model_client = 1
    /\ pc = "battle_ready"
    /\ event = NoEvent
    /\ \E sel \in BattleSelections, problem \in BattleProblems :
          frame = [NoFrame EXCEPT !.flow = "battle", !.selected = sel, !.problem = problem]
    /\ pending = NoPending
    /\ calls = <<>>
    /\ printed = <<>>
    /\ nagents = 0
    /\ sessions = 0
    /\ failed = {}

NextBattle ==
    \/ BattleBegin
    \/ BattleSolutionReturns
    \/ BattleJudgeReturns
    \/ BattleRaises

SpecBattle == InitBattle /\ [][NextBattle]_vars

----------------------------------------------------------------------------
(* EnhancedPersonaSystemUI.problem_solving_battle, called on a UI whose     *)
(* factory holds personas registered by a client                            *)

\* the factory's registry: four personas, two of them with one display name,
\* or two personas only
BattleRegistries ==
    LET reg(names) == [i \in 1..Len(names) |->
            <<names[i], ClientPersonaConfig(names[i],
                            IF i <= 2 THEN <<"Display One">> ELSE <<"Display Two">>, <<>>)>>]
    IN  { reg(<< <<"alpha">>, edison, <<"gamma">>, <<"delta">> >>), reg(<< <<"alpha">>, edison >>) }

BattleSelectLines == { <<"1">>, <<"2">>, <<"3">>, <<"4">>, <<"0">>, <<"5">>, <<"a", "b", "c">> }

AlreadySelectedNever(config, selected_personas) == FALSE

\* not (config not in selected_personas): equality of whole records
AlreadySelected(config, selected_personas) ==
    \E i \in 1..Len(selected_personas) : selected_personas[i] = config

\* the numbered listing of the personas not yet selected, then the prompt
BattleSlotLines(selected_personas) ==
    LET listing == DictItems(personas) IN
    << <<ToString(Len(selected_personas) + 1), " ninme:">>,
       JoinWith([j \in 1..Len(listing) |->
                    IF AlreadySelected(listing[j][2], selected_personas) THEN <<>>
                    ELSE <<ToString(j), ". ">> \o listing[j][2].display_name \o NL], <<>>),
       <<"input: sentaku (bangou): ">> >>

\* one line read by the selection loop
BattleSelectInput ==
    /\ pc = "battle_select"
    /\ UNCHANGED <<program, api_key, harnessVars, factoryVars, model_client>>
    /\ \E line \in BattleSelectLines :
        LET ev == Event("line", line) IN
        LET listing == DictItems(personas)
            sel     == Selection(line, Len(listing))
            again(says) == Goto(ev, pc, frame, pending, calls,
                                <<says, <<"input: sentaku (bangou): ">> >>,
                                nagents, sessions, failed)
        IN
        IF sel.choice = 0
        THEN again(IF sel.says = InvalidChoice THEN <<"Mukou na sentaku desu.">> ELSE sel.says)
        ELSE LET config == listing[sel.choice][2] IN
        IF AlreadySelected(config, frame.selected)
        THEN again(<<"Sude ni sentaku sarete imasu.">>)
        ELSE LET selected2 == Append(frame.selected, config) IN
             IF Len(selected2) < BattleSize
             THEN Goto(ev, pc, [frame EXCEPT !.selected = selected2], pending, calls,
                       BattleSlotLines(selected2), nagents, sessions, failed)
             ELSE Goto(ev, "battle_problem", [frame EXCEPT !.selected = selected2], pending,
                       calls, << <<"input: mondai: ">> >>, nagents, sessions, failed)

\* the problem is read and ProblemSolvingBattle(selected_personas, client) built
BattleProblemInput ==
    /\ pc = "battle_problem"
    /\ UNCHANGED <<program, api_key, harnessVars, factoryVars, model_client>>
    /\ \E problem \in BattleProblems :
        Goto(Event("line", problem), "battle_ready", [frame EXCEPT !.problem = problem],
             pending, calls, <<>>, nagents, sessions, failed)

InitBattleUI ==
    /\ program = "solution"
    /\ api_key = "sk-test"
    /\ personas \in BattleRegistries
    /\ categories = DefaultCategories
    /\ ret = NoCall
    /\ reglog = <<>>
    /\ model_client = 1
    /\ pc = "battle_select"
    /\ event = NoEvent
    /\ frame = [NoFrame EXCEPT !.flow = "battle"]
    /\ pending = NoPending
    /\ calls = <<>>
    /\ printed = BattleSlotLines(<<>>)
    /\ nagents = 0
    /\ sessions = 0
    /\ failed = {}

NextBattleUI ==
    \/ BattleSelectInput
    \/ BattleProblemInput
    \/ NextBattle

SpecBattleUI == InitBattleUI /\ [][NextBattleUI]_vars

\* the same flow entered by the choice 2 of main()'s loop
InitBattleMenu ==
    /\ program = "solution"
    /\ api_key = "sk-test"
    /\ personas \in BattleRegistries
    /\ categories = DefaultCategories
    /\ ret = NoCall
    /\ reglog = <<>>
    /\ model_client = 1
    /\ pc = "battle_select"
    /\ event = NoEvent
    /\ frame = [NoFrame EXCEPT !.flow = "battle", !.caller = "main"]
    /\ pending = NoPending
    /\ calls = <<>>
    /\ printed = BattleSlotLines(<<>>)
    /\ nagents = 0
    /\ sessions = 1
    /\ failed = {}

SpecBattleMenu == InitBattleMenu /\ [][NextBattleUI]_vars

----------------------------------------------------------------------------
(* ProblemSolvingSession, driven by a caller that has built the session for *)
(* one persona record and calls solve_problem                               *)

MaxSolves == 2

\* the agent built by each of the four stages, in the order of solve_problem
SessionAgentNamesSwapped ==
    << <<"problem", "_", "analyzer">>, <<"solution", "_", "evaluator">>,
       <<"solution", "_", "generator">>, <<"action", "_", "planner">> >>

SessionAgentNames ==
    << <<"problem", "_", "analyzer">>, <<"solution", "_", "generator">>,
       <<"solution", "_", "evaluator">>, <<"action", "_", "planner">> >>

SessionSystemMessage(stage, persona) ==
    <<"\n", "Anata wa ">> \o persona.display_name \o <<" desu.", "\n">> \o
    (IF stage = 2 THEN persona.problem_solving_framework.name \o <<" wo shiyou shite", "\n">>
     ELSE IF stage = 3
     THEN JoinWith(DashedItems(persona.problem_solving_framework.evaluation_criteria), NL) \o NL
     ELSE <<>>) \o
    <<"[instructions of stage ", ToString(stage), "]", "\n">>

\* analyze_problem: the record returned; the response is not read
analyze_problem(problem, response) ==
    [ original_problem |-> problem,
      essence          |-> <<"mondai no honshitsu">>,
      root_cause       |-> <<"konpon gen'in">>,
      stakeholders     |-> << <<"kankeisha 1">>, <<"kankeisha 2">> >>,
      constraints      |-> << <<"seiyaku 1">>, <<"seiyaku 2">> >>,
      desired_outcome  |-> <<"nozomashii kekka">> ]

\* generate_solutions: the list returned; neither argument is read
generate_solutions(analysis, response) ==
    << [ summary          |-> <<"kaiketsusaku no youyaku">>,
         detailed_steps   |-> << <<"step 1">>, <<"step 2">>, <<"step 3">> >>,
         expected_outcomes |-> << <<"seika 1">>, <<"seika 2">> >>,
         risks            |-> << <<"risk 1">>, <<"risk 2">> >>,
         success_metrics  |-> << <<"shihyou 1">>, <<"shihyou 2">> >>,
         timeline         |-> <<"3 kagetsu">>,
         resources_needed |-> << <<"resource 1">>, <<"resource 2">> >> ] >>

\* an evaluation that takes the summary of the best solution from the response
evaluate_solutions_from_response(solutions, response) ==
    [solutions[1] EXCEPT !.summary = response]

\* evaluate_solutions: return solutions[0]
evaluate_solutions(solutions, response) == solutions[1]

\* create_action_plan: return response.messages[-1].content
create_action_plan(solution, response) == response

\* the task of the run() call of each stage
SessionTask(stage, fr) ==
    IF stage = 1 THEN <<"Tsugi no mondai wo bunseki shite kudasai: ">> \o fr.problem
    ELSE IF stage = 2
    THEN <<"\n", "mondai no honshitsu: ">> \o fr.analysis.essence \o
         <<"\n", "konpon gen'in: ">> \o fr.analysis.root_cause \o
         <<"\n", "seiyaku jouken: ">> \o JoinWith(fr.analysis.constraints, <<", ">>) \o
         <<"\n", "nozomashii kekka: ">> \o fr.analysis.desired_outcome \o <<"\n">>
    ELSE IF stage = 3
    THEN <<"Tsugi no kaiketsusaku wo hyouka shite kudasai:", "\n">> \o
         JoinWith([i \in 1..Len(fr.solutions) |->
                      <<"kaiketsusaku", ToString(i), ": ">> \o fr.solutions[i].summary],
                  <<"\n", "\n">>)
    ELSE <<"\n", "kaiketsusaku: ">> \o fr.best.summary \o
         <<"\n", "step: ">> \o JoinWith(fr.best.detailed_steps, <<", ">>) \o
         <<"\n", "hitsuyou resource: ">> \o JoinWith(fr.best.resources_needed, <<", ">>) \o
         <<"\n", "timeline: ">> \o fr.best.timeline \o <<"\n">>

\* the locals of solve_problem once the call of a stage has returned
SessionAbsorb(stage, fr, response) ==
    IF stage = 1 THEN [fr EXCEPT !.analysis = analyze_problem(fr.problem, response)]
    ELSE IF stage = 2 THEN [fr EXCEPT !.solutions = generate_solutions(fr.analysis, response)]
    ELSE IF stage = 3 THEN [fr EXCEPT !.best = evaluate_solutions(fr.solutions, response)]
    ELSE fr

\* a stage begins: its agent is built and its run() call issued
SessionIssue(ev, stage, fr, log, sessions2) ==
    LET agent == [id |-> nagents + 1, name |-> SessionAgentNames[stage],
                  system_message |-> SessionSystemMessage(stage, fr.selected[1])]
        call  == RunCall(agent, SessionTask(stage, fr))
    IN  Goto(ev, "session_await", [fr EXCEPT !.index = stage, !.agent = agent], call,
             Append(log, call), << <<"[step ", ToString(stage), "]">> >>,
             nagents + 1, sessions2, failed)

\* solve_problem(problem) is called
SessionBegin ==
    /\ pc = "session_idle"
    /\ sessions < MaxSolves
    /\ UNCHANGED <<program, api_key, harnessVars, factoryVars, model_client>>
    /\ \E problem \in BattleProblems :
        SessionIssue(Event("call", problem), 1,
                     [frame EXCEPT !.problem = problem, !.analysis = <<>>,
                                   !.solutions = <<>>, !.best = <<>>], <<>>, sessions + 1)

\* the run() call of a stage returns
SessionStageReturns ==
    /\ pc = "session_await"
    /\ UNCHANGED <<program, api_key, reglog, factoryVars, model_client>>
    /\ \E content \in Responses :
        LET ev == Event("returns", content)
            fr == SessionAbsorb(frame.index, frame, content)
        IN
        IF frame.index < 4
        THEN SessionIssue(ev, frame.index + 1, fr, calls, sessions) /\ UNCHANGED ret
        ELSE /\ ret' = Call("solve_problem", <<fr.problem>>,
                            Ok([problem |-> fr.problem, analysis |-> fr.analysis,
                                solution |-> fr.best,
                                action_plan |-> create_action_plan(fr.best, content)]))
             /\ Goto(ev, "session_idle",
                     [fr EXCEPT !.problem_history = Append(@, fr.problem),
                                !.solution_history = Append(@, fr.best)],
                     NoPending, calls, <<>>, nagents, sessions, failed)

\* a solve_problem that records the problem before its stages have run
SessionRaisesProblemRecorded ==
    /\ pc = "session_await"
    /\ UNCHANGED <<program, api_key, reglog, factoryVars, model_client>>
    /\ \E e \in RespondErrors :
        /\ ret' = Call("solve_problem", <<frame.problem>>, Raise(e.type, e.msg))
        /\ Goto(Event("raises", e), "session_idle",
                [frame EXCEPT !.problem_history = Append(@, frame.problem)],
                NoPending, calls, <<>>, nagents, sessions, failed \cup {pending.agent})

\* the run() call of a stage raises: solve_problem catches nothing
SessionRaises ==
    /\ pc = "session_await"
    /\ UNCHANGED <<program, api_key, reglog, factoryVars, model_client>>
    /\ \E e \in RespondErrors :
        /\ ret' = Call("solve_problem", <<frame.problem>>, Raise(e.type, e.msg))
        /\ Goto(Event("raises", e), "session_idle", frame, NoPending, calls, <<>>,
                nagents, sessions, failed \cup {pending.agent})

InitSession ==
    /\ program = "solution"
    /\ api_key = "sk-test"
    /\ personas = <<>>
    /\ categories = <<>>
    /\ ret = NoCall
    /\ reglog = <<>>
    /\ model_client = 1
    /\ pc = "session_idle"
    /\ event = NoEvent
    /\ \E persona \in BattlePool :
          frame = [NoFrame EXCEPT !.flow = "session", !.selected = <<persona>>]
    /\ pending = NoPending
    /\ calls = <<>>
    /\ printed = <<>>
    /\ nagents = 0
    /\ sessions = 0
    /\ failed = {}

NextSession ==
    \/ SessionBegin
    \/ SessionStageReturns
    \/ SessionRaises

SpecSession == InitSession /\ [][NextSession]_vars

\* the two flows of the solution file that call the collaborator in sequence
SpecFlows == (InitBattleUI \/ InitSession) /\ [][NextBattleUI \/ NextSession]_vars

----------------------------------------------------------------------------
(* EnhancedPersonaSystemUI.specialized_consultation, called on a UI whose   *)
(* factory holds personas and one more category registered by a client      *)

\* the factory's registry: three personas of which the first and the third
\* carry a prompt for category "x", or one persona that carries no prompt
ConsultRegistries ==
    LET with == (<<"x">> :> <<"client prompt for x">>) IN
    { << << <<"alpha">>, ClientPersonaConfig(<<"alpha">>, <<"Display One">>, with) >>,
         << edison, ClientPersonaConfig(edison, <<"Display One">>, <<>>) >>,
         << <<"gamma">>, ClientPersonaConfig(<<"gamma">>, <<"Display Two">>, with) >> >>,
      << << edison, ClientPersonaConfig(edison, <<"Display Two">>, <<>>) >> >> }

ConsultCategoryLines == { <<"1">>, <<"9">>, <<"0">>, <<"1", "0">>, <<"a", "b", "c">> }

ConsultPersonaLines == { <<"1">>, <<"2">>, <<"3">>, <<"0">>, <<"a", "b", "c">>, <<>> }

\* every registered persona, whatever prompts it carries
ExpertsUnfiltered(category_key) == DictItems(personas)

\* experts: the (key, config) pairs of the personas whose category_prompts
\* holds the category key, in the order of the registry
Experts(category_key) ==
    SelectSeq(DictItems(personas), LAMBDA e : category_key \in DOMAIN e[2].category_prompts)

\* the lines printed once the category is chosen, up to the prompt
ExpertLines(label, experts) ==
    << label \o <<" bun'ya no senmonka:">>,
       JoinWith([i \in 1..Len(experts) |-> <<"- ">> \o experts[i][2].display_name \o NL], <<>>),
       JoinWith([i \in 1..Len(experts) |->
                    <<ToString(i), ". ">> \o experts[i][2].display_name \o NL], <<>>),
       <<"input: sentaku (bangou): ">> >>

\* one line read by the category loop
ConsultCategoryInput ==
    /\ pc = "consult_category"
    /\ UNCHANGED <<program, api_key, harnessVars, factoryVars, model_client>>
    /\ \E line \in ConsultCategoryLines :
        LET ev == Event("line", line) IN
        LET listing == DictItems(categories)
            sel     == Selection(line, Len(listing))
        IN
        IF sel.choice = 0
        THEN Goto(ev, pc, frame, pending, calls,
                  << IF sel.says = InvalidChoice THEN <<"Mukou na sentaku desu.">> ELSE sel.says,
                     <<"input: sentaku (bangou): ">> >>,
                  nagents, sessions, failed)
        ELSE LET key     == listing[sel.choice][1]
                 experts == Experts(key)
             IN  Goto(ev, "consult_persona",
                      [frame EXCEPT !.category_key = key, !.experts = experts],
                      pending, calls, ExpertLines(listing[sel.choice][2], experts),
                      nagents, sessions, failed)

\* one line read by the persona loop; on a valid choice the agent is built
ConsultPersonaInput ==
    /\ pc = "consult_persona"
    /\ UNCHANGED <<program, api_key, reglog, factoryVars, model_client>>
    /\ \E line \in ConsultPersonaLines :
        LET ev  == Event("line", line)
            sel == Selection(line, Len(frame.experts))
        IN
        IF sel.choice = 0
        THEN /\ Goto(ev, pc, frame, pending, calls,
                     << IF sel.says = InvalidChoice THEN <<"Mukou na sentaku desu.">>
                        ELSE sel.says,
                        <<"input: sentaku (bangou): ">> >>,
                     nagents, sessions, failed)
             /\ UNCHANGED ret
        ELSE LET persona_key    == frame.experts[sel.choice][1]
                 persona_config == frame.experts[sel.choice][2]
                 out            == create_specialized_agent(persona_key, frame.category_key)
             IN
             IF ~out.ok
             THEN /\ ret' = Call("specialized_consultation", <<>>, out)
                  /\ Goto(ev, "consult_raised", frame, NoPending, calls, <<>>,
                          nagents, sessions, failed)
             ELSE /\ UNCHANGED ret
                  /\ Goto(ev, "consult_input",
                          [frame EXCEPT !.persona_key = persona_key,
                                        !.persona_name = persona_config.display_name,
                                        !.agent = NewAgent(out)],
                          pending, calls,
                          << persona_config.display_name \o <<" to no soudan wo kaishi shimasu.">>,
                             <<"Shuuryou suru ni wa 'exit' to nyuuryoku shite kudasai.">>,
                             ChatPrompt >>,
                          nagents + 1, sessions, failed)

IsConsultExitOrQuit(line) == Lower(line) \in {<<"e", "x", "i", "t">>, <<"q", "u", "i", "t">>}

\* user_input.lower() == 'exit'
IsConsultExit(line) == Lower(line) = <<"e", "x", "i", "t">>

\* one line read by the consultation loop
ConsultInput ==
    /\ pc = "consult_input"
    /\ UNCHANGED <<program, api_key, reglog, factoryVars, model_client>>
    /\ \E line \in ChatLines :
        LET ev == Event("line", line) IN
        IF IsConsultExit(line)
        THEN /\ ret' = Call("specialized_consultation", <<>>, Ok("None"))
             /\ Goto(ev, "consult_returned", frame, NoPending, calls,
                     << frame.persona_name \o <<": mata soudan ga areba, itsudemo kinasai.">> >>,
                     nagents, sessions, failed)
        ELSE /\ Len(calls) < MaxChatTurns
             /\ UNCHANGED ret
             /\ LET call == RunCall(frame.agent, line) IN
                Goto(ev, "consult_await", frame, call, Append(calls, call), <<>>,
                     nagents, sessions, failed)

\* the awaited agent.run() returns
ConsultReturns ==
    /\ pc = "consult_await"
    /\ UNCHANGED <<program, api_key, harnessVars, factoryVars, model_client>>
    /\ \E content \in Responses :
        Goto(Event("returns", content), "consult_input", frame, NoPending, calls,
             << frame.persona_name \o <<": ">> \o content, ChatPrompt >>,
             nagents, sessions, failed)

\* the awaited agent.run() raises: the flow catches nothing
ConsultRaises ==
    /\ pc = "consult_await"
    /\ UNCHANGED <<program, api_key, reglog, factoryVars, model_client>>
    /\ \E e \in RespondErrors :
        /\ ret' = Call("specialized_consultation", <<>>, Raise(e.type, e.msg))
        /\ Goto(Event("raises", e), "consult_raised", frame, NoPending, calls, <<>>,
                nagents, sessions, failed \cup {pending.agent})

InitConsult ==
    /\ program = "solution"
    /\ api_key = "sk-test"
    /\ personas \in ConsultRegistries
    /\ categories = DictSet(DefaultCategories, <<"x">>, <<"X">>)
    /\ ret = NoCall
    /\ reglog = <<>>
    /\ model_client = 1
    /\ pc = "consult_category"
    /\ event = NoEvent
    /\ frame = [NoFrame EXCEPT !.flow = "consultation"]
    /\ pending = NoPending
    /\ calls = <<>>
    /\ printed = << CategoryListing, <<"input: sentaku (bangou): ">> >>
    /\ nagents = 0
    /\ sessions = 0
    /\ failed = {}

NextConsult ==
    \/ ConsultCategoryInput
    \/ ConsultPersonaInput
    \/ ConsultInput
    \/ ConsultReturns
    \/ ConsultRaises

SpecConsult == InitConsult /\ [][NextConsult]_vars

----------------------------------------------------------------------------
(* Actions of the PersonaFactory API *)

RegisterPersona ==
    /\ Len(reglog) < MaxRegistrations
    /\ \E cfg \in ClientPersonas :
        /\ personas' = register_persona(cfg)
        /\ ret' = [Call("register_persona", <<cfg>>, Ok("None")) EXCEPT
                      !.replaced = DictHas(personas, cfg.name),
                      !.before = personas]
        /\ reglog' = Append(reglog, <<"persona", cfg.name>>)
    /\ UNCHANGED <<program, categories>>
    /\ UNCHANGED consoleVars

RegisterCategory ==
    /\ Len(reglog) < MaxRegistrations
    /\ \E c \in ClientCategories :
        /\ categories' = register_category(c[1], c[2])
        /\ ret' = [Call("register_category", c, Ok("None")) EXCEPT
                      !.replaced = DictHas(categories, c[1]),
                      !.before = categories]
        /\ reglog' = Append(reglog, <<"category", c[1]>>)
    /\ UNCHANGED <<program, personas>>
    /\ UNCHANGED consoleVars

CreateAgent ==
    /\ program = "basic"
    /\ \E pk \in QueryPersonaKeys, ck \in QueryCategoryKeys :
        ret' = Call("create_agent", <<pk, ck>>, create_agent(pk, ck))
    /\ UNCHANGED <<program, personas, categories, reglog>>
    /\ UNCHANGED consoleVars

CreateProblemSolvingAgent ==
    /\ program = "solution"
    /\ \E pk \in QueryPersonaKeys :
        ret' = Call("create_problem_solving_agent", <<pk>>,
                    create_problem_solving_agent(pk))
    /\ UNCHANGED <<program, personas, categories, reglog>>
    /\ UNCHANGED consoleVars

\* a create_specialized_agent that keeps the composed prompt on the record
CreateSpecializedAgentStoring ==
    /\ program = "solution"
    /\ \E pk \in QueryPersonaKeys, ck \in QueryCategoryKeys :
        LET out == create_specialized_agent(pk, ck) IN
        /\ ret' = Call("create_specialized_agent", <<pk, ck>>, out)
        /\ personas' = IF out.ok
                       THEN DictSet(personas, pk, [DictGet(personas, pk) EXCEPT
                                                      !.base_traits = out.value.system_message])
                       ELSE personas
    /\ UNCHANGED <<program, categories, reglog>>
    /\ UNCHANGED consoleVars

CreateSpecializedAgent ==
    /\ program = "solution"
    /\ \E pk \in QueryPersonaKeys, ck \in QueryCategoryKeys :
        ret' = Call("create_specialized_agent", <<pk, ck>>,
                    create_specialized_agent(pk, ck))
    /\ UNCHANGED <<program, personas, categories, reglog>>
    /\ UNCHANGED consoleVars

GetAvailablePersonas ==
    /\ program = "basic"
    /\ ret' = [Call("get_available_personas", <<>>, Ok(get_available_personas)) EXCEPT
                  !.again = (ret.op = "get_available_personas"),
                  !.prev = IF ret.op = "get_available_personas"
                           THEN ret.out.value ELSE <<>>]
    /\ UNCHANGED <<program, personas, categories, reglog>>
    /\ UNCHANGED consoleVars

GetAvailableCategories ==
    /\ program = "basic"
    /\ ret' = [Call("get_available_categories", <<>>, Ok(get_available_categories)) EXCEPT
                  !.again = (ret.op = "get_available_categories"),
                  !.prev = IF ret.op = "get_available_categories"
                           THEN ret.out.value ELSE <<>>]
    /\ UNCHANGED <<program, personas, categories, reglog>>
    /\ UNCHANGED consoleVars

\* A constructed factory.  PersonaFactory() of persona-simulation-system.py
\* holds the nine default personas and eight default categories.  In
\* persona-simulation-system_solution.py _register_enhanced_personas raises
\* (ProblemType.POLITICAL is not a member), so a factory of that class exists
\* only where a subclass overrides that method: no persona is registered and
\* the eight default categories are.
InitFactory ==
    /\ program \in {"basic", "solution"}
    /\ personas = IF program = "basic" THEN DefaultPersonas ELSE <<>>
    /\ categories = DefaultCategories
    /\ ret = NoCall
    /\ reglog = <<>>
    /\ NoConsole

SpecFactory == InitFactory /\
    [][ \/ RegisterPersona
        \/ RegisterCategory
        \/ CreateAgent
        \/ CreateProblemSolvingAgent
        \/ CreateSpecializedAgent
        \/ GetAvailablePersonas
        \/ GetAvailableCategories ]_vars

\* the personas property / the categories property is read
GetPersonasProperty ==
    /\ ret' = Call("personas", <<>>, Ok(DictCopy(personas)))
    /\ UNCHANGED <<program, personas, categories, reglog>>
    /\ UNCHANGED consoleVars

GetCategoriesProperty ==
    /\ ret' = Call("categories", <<>>, Ok(DictCopy(categories)))
    /\ UNCHANGED <<program, personas, categories, reglog>>
    /\ UNCHANGED consoleVars

\* what one statement of the client makes of a dict it holds: d[k] = v with
\* a new or an existing key, or del d[k] with an existing key
ClientEdits(d, entries) ==
    {DictSet(d, e[1], e[2]) : e \in entries} \cup {DictDel(d, k) : k \in {d[i][1] : i \in 1..Len(d)}}

\* the client changes the dict it was handed by the property it read last
EditReturnedDict ==
    /\ ret.op \in {"personas", "categories"}
    /\ ~ret.replaced
    /\ \E d \in ClientEdits(ret.out.value.items,
                           IF ret.op = "personas" THEN {<<c.name, c>> : c \in ClientPersonas}
                           ELSE ClientCategories) :
        /\ d # ret.out.value.items
        /\ ret' = [ret EXCEPT !.out.value.items = d, !.replaced = TRUE,
                              !.before = ret.out.value.items]
        /\ personas' = IF ret.op = "personas" /\ ret.out.value.shared THEN d ELSE personas
        /\ categories' = IF ret.op = "categories" /\ ret.out.value.shared THEN d ELSE categories
    /\ UNCHANGED <<program, reglog>>
    /\ UNCHANGED consoleVars

\* a client that reads the properties, edits what it was handed, and calls
\* the factory afterwards
SpecCopies == InitFactory /\
    [][ \/ RegisterPersona
        \/ GetPersonasProperty
        \/ GetCategoriesProperty
        \/ EditReturnedDict
        \/ CreateAgent
        \/ GetAvailablePersonas ]_vars

----------------------------------------------------------------------------
(* Everything that uses a constructed catalog: the console programs, the    *)
(* flows of the solution file called on a UI, and a client of the API       *)

SpecCatalog ==
    /\ Init \/ InitScenario \/ InitBattleUI \/ InitSession \/ InitConsult \/ InitFactory
    /\ [][ \/ Next
           \/ NextBattleUI
           \/ NextSession
           \/ NextConsult
           \/ (pc = "none" /\ RegisterPersona)
           \/ (pc = "none" /\ RegisterCategory)
           \/ (pc = "none" /\ CreateAgent)
           \/ (pc = "none" /\ CreateProblemSolvingAgent)
           \/ (pc = "none" /\ CreateSpecializedAgent)
           \/ (pc = "none" /\ GetAvailablePersonas)
           \/ (pc = "none" /\ GetAvailableCategories) ]_vars

----------------------------------------------------------------------------
(* Agent names of the four modes for one persona key and one category key. *)
(* The keys are registered with a factory and the four agents are built:   *)
(* the category agent by create_agent, the others by the solution file's   *)
(* create_problem_solving_agent, create_specialized_agent and battle.      *)

NamingPersonaKeys == {<<"alpha">>, edison, von_neumann, <<"x", "_", "battler">>}

NamingCategoryKeys ==
    DefaultCategoryKeys \cup
        { <<"x">>, <<"battler">>, problem_solver, <<"specialist">>,
          <<"x", "_", "specialist">>, <<"problem">>, <<>> }

Unset == <<>>

NoNames == [category |-> Unset, problem_solver |-> Unset,
            specialist |-> Unset, battler |-> Unset]

NamingPersona == personas[1][2]

NamingCategory == categories[Len(categories)][1]

NameCategoryAgent ==
    /\ ret.out.value.category = Unset
    /\ ret' = [ret EXCEPT !.out.value.category =
                  create_agent(NamingPersona.name, NamingCategory).value.name]
    /\ UNCHANGED <<program, personas, categories, reglog>>
    /\ UNCHANGED consoleVars

NameProblemSolver ==
    /\ ret.out.value.problem_solver = Unset
    /\ ret' = [ret EXCEPT !.out.value.problem_solver =
                  create_problem_solving_agent(NamingPersona.name).value.name]
    /\ UNCHANGED <<program, personas, categories, reglog>>
    /\ UNCHANGED consoleVars

NameSpecialist ==
    /\ ret.out.value.specialist = Unset
    /\ ret' = [ret EXCEPT !.out.value.specialist =
                  create_specialized_agent(NamingPersona.name, NamingCategory).value.name]
    /\ UNCHANGED <<program, personas, categories, reglog>>
    /\ UNCHANGED consoleVars

NameBattler ==
    /\ ret.out.value.battler = Unset
    /\ ret' = [ret EXCEPT !.out.value.battler = BattlerAgentName(NamingPersona.name)]
    /\ UNCHANGED <<program, personas, categories, reglog>>
    /\ UNCHANGED consoleVars

InitNaming ==
    /\ program = "solution"
    /\ \E P \in NamingPersonaKeys, C \in NamingCategoryKeys :
        /\ personas = DictSet(<<>>, P,
               EnhancedPersonaConfig(P, <<"Display One">>, <<"base_traits:">> \o P,
                   <<>>, ClientFramework, <<"client style">>, <<"STRATEGIC">>,
                   <<"client process">>, << <<"client technique">> >>))
        /\ categories = DictSet(SelectSeq(DefaultCategories, LAMBDA e : e[1] # C),
                                C, <<"Label">>)
        /\ ret = Call("names", <<P, C>>, Ok(NoNames))
    /\ reglog = <<>>
    /\ NoConsole

SpecNaming == InitNaming /\
    [][ \/ NameCategoryAgent
        \/ NameProblemSolver
        \/ NameSpecialist
        \/ NameBattler ]_vars

----------------------------------------------------------------------------
(* The problem-solving prompt as a function of the registered persona: a    *)
(* client registers one persona and asks for its problem-solving agent.     *)
(* "\n" is a token of its own in every string, so a string of several       *)
(* lines is a sequence holding "\n" tokens.                                  *)

\* lists a client may give as steps, key_questions, evaluation_criteria and
\* tools: empty, one item, several, a repeated item, an empty string, and
\* strings of two lines whose second line looks like an item
PromptItemLists ==
    { <<>>,
      << <<"item a">> >>,
      << <<"item b">>, <<"item a">> >>,
      << <<"item a">>, <<"item b">>, <<"item a">> >>,
      << <<>> >>,
      << <<"item a", "\n", "- ", "item b">> >>,
      << <<"item a", "\n", "2", ". ", "item b">>, <<"item c">> >> }

PromptPersonas ==
    { EnhancedPersonaConfig(<<"alpha">>, <<"Display One">>, <<"base_traits:", "alpha">>, <<>>,
          ProblemSolvingFramework(<<"client method">>, st, kq, ec, tl),
          <<"client style">>, <<"STRATEGIC", "ETHICAL">>,
          <<"client process">>, << <<"client technique">> >>) :
        st \in PromptItemLists, kq \in PromptItemLists,
        ec \in PromptItemLists, tl \in PromptItemLists }

PromptRegister ==
    /\ personas = <<>>
    /\ \E cfg \in PromptPersonas :
        /\ personas' = register_persona(cfg)
        /\ ret' = Call("register_persona", <<cfg>>, Ok("None"))
        /\ reglog' = Append(reglog, <<"persona", cfg.name>>)
    /\ UNCHANGED <<program, categories>>
    /\ UNCHANGED consoleVars

InitPrompt ==
    /\ program = "solution"
    /\ personas = <<>>
    /\ categories = DefaultCategories
    /\ ret = NoCall
    /\ reglog = <<>>
    /\ NoConsole

SpecPrompt == InitPrompt /\
    [][ \/ PromptRegister
        \/ CreateProblemSolvingAgent ]_vars

----------------------------------------------------------------------------
(* Properties of the PersonaFactory API *)

RECURSIVE FirstOccurrences(_)
FirstOccurrences(s) ==
    IF s = <<>> THEN <<>>
    ELSE LET front == FirstOccurrences(SubSeq(s, 1, Len(s) - 1))
             last  == s[Len(s)]
         IN  IF \E i \in 1..Len(front) : front[i] = last THEN front
             ELSE Append(front, last)

LoggedKeys(kind) ==
    LET hits == SelectSeq(reglog, LAMBDA e : e[1] = kind)
    IN  [i \in 1..Len(hits) |-> hits[i][2]]

CountKey(d, k) == Cardinality({i \in 1..Len(d) : d[i][1] = k})

\* C1: create_agent on a registered persona and a registered category
\* returns an agent whose system message is base_traits, a blank line, and
\* the persona's prompt for the category or, when it has none, the fallback
\* sentence built from the category's label; it does not raise.
C1_FallbackNotError ==
    (/\ ret.op = "create_agent"
     /\ DictHas(personas, ret.args[1])
     /\ DictHas(categories, ret.args[2]))
    => LET persona == DictGet(personas, ret.args[1])
           ck      == ret.args[2]
           X       == IF ck \in DOMAIN persona.category_prompts
                      THEN persona.category_prompts[ck]
                      ELSE DictGet(categories, ck)
                               \o <<" ni tsuite senmonteki ni kaitou shite kudasai.">>
       IN  /\ ret.out.ok
           /\ ret.out.value.system_message
                  = persona.base_traits \o <<"\n", "\n">> \o X

\* the fallback case: a registered persona without a prompt for a registered category
C1_Witness ==
    /\ ret.op = "create_agent"
    /\ ret.out.ok
    /\ DictHas(personas, ret.args[1])
    /\ ret.args[2] \notin DOMAIN DictGet(personas, ret.args[1]).category_prompts

IsCreateWithCategory == ret.op \in {"create_agent", "create_specialized_agent"}

IsUnknownPersonaError(out, pk) ==
    /\ ~out.ok
    /\ out.error.type = "ValueError"
    /\ out.error.msg = <<"Unknown persona: ">> \o pk

IsUnknownCategoryError(out, ck) ==
    /\ ~out.ok
    /\ out.error.type = "ValueError"
    /\ out.error.msg = <<"Unknown category: ">> \o ck

\* C2 (as claimed): an unregistered persona key gives the unknown-persona
\* error and an unregistered category key gives the unknown-category error,
\* each whatever the other key is; no agent is built when the call fails.
C2_ErrorsIndependent ==
    IsCreateWithCategory =>
        /\ ~DictHas(personas, ret.args[1]) => IsUnknownPersonaError(ret.out, ret.args[1])
        /\ ~DictHas(categories, ret.args[2]) => IsUnknownCategoryError(ret.out, ret.args[2])
        /\ ~ret.out.ok => ret.out.value = "None"

\* C2 (amended): the persona key is checked first.  An unregistered persona
\* key gives the unknown-persona error whatever the category key is; an
\* unregistered category key gives the unknown-category error when the
\* persona key is registered; no agent is built when the call fails.
C2_PersonaCheckedFirst ==
    IsCreateWithCategory =>
        /\ ~DictHas(personas, ret.args[1]) => IsUnknownPersonaError(ret.out, ret.args[1])
        /\ (DictHas(personas, ret.args[1]) /\ ~DictHas(categories, ret.args[2]))
               => IsUnknownCategoryError(ret.out, ret.args[2])
        /\ ~ret.out.ok => ret.out.value = "None"

\* both keys unregistered
C2_Witness ==
    /\ ret.op = "create_agent"
    /\ ~DictHas(personas, ret.args[1])
    /\ ~DictHas(categories, ret.args[2])
    /\ ~ret.out.ok

\* C3: registering under a key that is already present leaves one record
\* under the key, the newly registered one, and the same number of entries.
C3_LastWriteWins ==
    /\ (ret.op = "register_persona" /\ ret.replaced) =>
           /\ CountKey(personas, ret.args[1].name) = 1
           /\ DictGet(personas, ret.args[1].name) = ret.args[1]
           /\ Len(personas) = Len(ret.before)
    /\ (ret.op = "register_category" /\ ret.replaced) =>
           /\ CountKey(categories, ret.args[1]) = 1
           /\ DictGet(categories, ret.args[1]) = ret.args[2]
           /\ Len(categories) = Len(ret.before)

\* a persona key registered again with different content
C3_Witness ==
    /\ ret.op = "register_persona"
    /\ ret.replaced
    /\ DictGet(ret.before, ret.args[1].name) # ret.args[1]

\* C4: the listings give the keys in the order of their (first)
\* registration, the constructor's defaults first, and a listing repeated
\* with no call in between returns the same sequence.
C4_ListingOrder ==
    /\ ret.op = "get_available_personas" =>
           /\ [i \in 1..Len(ret.out.value) |-> ret.out.value[i][1]]
                  = FirstOccurrences(DefaultPersonaKeys \o LoggedKeys("persona"))
           /\ ret.again => ret.out.value = ret.prev
    /\ ret.op = "get_available_categories" =>
           /\ [i \in 1..Len(ret.out.value) |-> ret.out.value[i][1]]
                  = FirstOccurrences(DictKeys(DefaultCategories) \o LoggedKeys("category"))
           /\ ret.again => ret.out.value = ret.prev

\* a repeated listing after the client registered a new persona and a default one again
C4_Witness ==
    /\ ret.op = "get_available_personas"
    /\ ret.again
    /\ LoggedKeys("persona") \in {<<edison, <<"alpha">> >>, << <<"alpha">>, edison>>}

AllNamed ==
    /\ ret.op = "names"
    /\ \A m \in DOMAIN ret.out.value : ret.out.value[m] # Unset

PairwiseDifferent(f) == \A a, b \in DOMAIN f : a # b => f[a] # f[b]

\* C5 (as claimed): for every persona key and category key the catalog
\* accepts, the four agent names are pairwise different.
C5_NamesNeverCollide == AllNamed => PairwiseDifferent(ret.out.value)

\* C5 (amended): the four agent names are pairwise different for every
\* persona key and every category key other than "problem_solver" and
\* "battler" (so for each of the eight default categories).
C5_NamesCollideOnlyOnSuffixKeys ==
    (AllNamed /\ ret.args[2] \notin {problem_solver, <<"battler">>})
        => PairwiseDifferent(ret.out.value)

\* four agents named for a category key that ends in a mode suffix
C5_Witness ==
    /\ AllNamed
    /\ ret.args[2] = <<"x", "_", "specialist">>

\* the call battle() issues in k-th place for the participants of the frame
IsBattleCall(call, k, fr) ==
    IF k <= BattleSize
    THEN call = [agent |-> k, name |-> BattlerAgentName(fr.selected[k].name),
                 task |-> fr.problem]
    ELSE call.agent = k /\ call.name = <<"judge">>

\* C6: a battle over three different participants issues, one call per
\* step, a solution call for each participant in the order of selection and
\* then one call to the judge, four in all when it returns; the judge's call
\* is issued in the step in which the third solution call returns.
C6_ThreeSolutionsThenJudge ==
    [][ /\ Len(calls') <= BattleSize + 1
        /\ Len(calls') <= Len(calls) + 1
        /\ \A k \in 1..Len(calls') : IsBattleCall(calls'[k], k, frame')
        /\ pc' = "battle_returned" => (Len(calls') = BattleSize + 1 /\ ret'.out.ok)
        /\ (Len(calls') = BattleSize + 1 /\ Len(calls) = BattleSize) =>
              /\ event'.kind = "returns"
              /\ event'.at = "battle_await"
              /\ pending = calls[BattleSize] ]_vars

C6_Witness ==
    /\ pc = "battle_returned"
    /\ Len(calls) = 4
    /\ calls[4].name = <<"judge">>
    /\ frame.selected[1].name = frame.selected[2].name
    /\ ret.out.ok


----------------------------------------------------------------------------
(* Properties of the console programs *)

IsSuffix(s, t) == Len(s) <= Len(t) /\ SubSeq(t, Len(t) - Len(s) + 1, Len(t)) = s

Prints(line) == \E i \in 1..Len(printed) : printed[i] = line

\* the last step was a failure of an awaited call made from the menu loop
RespondFailed == event.kind = "raises" /\ event.at \in {"chat_await", "scenario_await", "stream"}

\* C7: a respond call that fails during a single-persona chat has its error
\* printed, the program is back at the main menu, and no call is ever
\* pending on an agent whose call has failed.
C7_ChatFailurePrintedAndLeft ==
    /\ (event.kind = "raises" /\ event.at = "chat_await") =>
          /\ pc = "MainMenu"
          /\ pending = NoPending
          /\ Len(printed) > 0 /\ IsSuffix(event.data.msg, printed[1])
    /\ pending.agent \notin failed

\* C8: every failure of a respond call, whatever its type, is handled by the
\* menu loop, which prints the failure's own message and then the main menu.
C8_FailureReportedWithMessage ==
    RespondFailed =>
        /\ pc = "MainMenu"
        /\ Len(printed) = 3
        /\ IsSuffix(event.data.msg, printed[1])
        /\ printed[2] = MainMenuBanner /\ printed[3] = MainMenuPrompt

\* one line read at a selection prompt: a line that int() refuses or whose
\* value is outside 1..N changes nothing but the printed lines; any other
\* line selects the key at that position of the listing
SelectionStep(at, listing, prompt, field) ==
    (pc = at /\ event'.kind = "line") =>
        LET r == ParseInt(event'.data) IN
        IF r.ok /\ 1 <= r.value /\ r.value <= Len(listing)
        THEN /\ frame'[field] = listing[r.value][1]
             /\ ~(EnterNumber \in {printed'[i] : i \in 1..Len(printed')})
             /\ ~(InvalidChoice \in {printed'[i] : i \in 1..Len(printed')})
        ELSE /\ pc' = at
             /\ frame' = frame
             /\ printed' = <<IF r.ok THEN InvalidChoice ELSE EnterNumber, prompt>>
             /\ UNCHANGED <<personas, categories, pending, calls, nagents, sessions,
                            failed, model_client>>

\* C9: at the persona and the category prompt a non-numeric line and a number
\* outside 1..N print a validation message and the same prompt, and change
\* neither the place, the flow's state, the catalog nor anything else; a
\* number in 1..N selects the key listed at that position.
C9_SelectionValidatedLocally ==
    [][ /\ SelectionStep("select_persona", get_available_personas, PersonaPrompt,
                         "persona_key")
        /\ SelectionStep("select_category", get_available_categories, CategoryPrompt,
                         "category_key") ]_vars

C9_Witness ==
    /\ event = [at |-> "select_persona", kind |-> "line", data |-> <<"9", "9">>]
    /\ pc = "select_persona"
    /\ printed = <<InvalidChoice, PersonaPrompt>>
    /\ Len(frame.agents) = 1

\* C10: with the API key missing, main() prints the diagnostic and returns at
\* once: no model client, no agent, no call, in each of the three programs;
\* and the diagnostic is printed in no state but that one.
C10_MissingKeyStopsAtStartup ==
    /\ ~(api_key # "None" /\ api_key # "") =>
          /\ pc \in {"start", "returned"}
          /\ pc = "returned" => printed = <<MissingKeyDiagnostic>>
          /\ model_client = 0 /\ nagents = 0 /\ sessions = 0
          /\ calls = <<>> /\ pending = NoPending /\ frame = NoFrame
    /\ Prints(MissingKeyDiagnostic) =>
          /\ pc = "returned" /\ event = NoEvent
          /\ model_client = 0 /\ nagents = 0 /\ sessions = 0 /\ calls = <<>>

C10_Witness ==
    /\ api_key = "None"
    /\ program = "solution"
    /\ pc = "returned"
    /\ printed = <<MissingKeyDiagnostic>>

\* where main() is while a flow chosen at the main menu runs
FlowPlaces ==
    {"select_persona", "select_category", "chat_input", "chat_await", "scenario_await", "stream"}

\* C11: in the two menu programs, once the API key is present, every step
\* taken inside a flow stays in the flow or is back at the main menu, the
\* program ends only by the choice 4 typed at the main menu and never by an
\* uncaught exception, and any other line that is no choice 1..3 leaves it
\* at the main menu.
C11_SessionStateMachine ==
    [][ (program \in {"basic", "solution"} /\ KeyPresent(api_key)) =>
          /\ pc' # "crashed"
          /\ pc' \in {"exited", "returned"} =>
                (pc = "MainMenu" /\ event'.kind = "line" /\ ParseInt(event'.data) = Ok(4))
          /\ (pc = "MainMenu" /\ ParseInt(event'.data) \notin {Ok(1), Ok(2), Ok(3), Ok(4)}) =>
                pc' = "MainMenu"
          /\ pc \in FlowPlaces => pc' \in FlowPlaces \cup {"MainMenu"} ]_vars

----------------------------------------------------------------------------
(* Properties of the problem-solving prompt *)

\* t occurs in s as a run of consecutive tokens
Contains(s, t) == \E i \in 0..(Len(s) - Len(t)) : SubSeq(s, i + 1, i + Len(t)) = t

\* the last call built a problem-solving agent
Rendered == ret.op = "create_problem_solving_agent" /\ ret.out.ok

RenderedPersona == DictGet(personas, ret.args[1])

\* the header line of each list of the framework, as the prompt prints it
ListHeaders ==
    [ steps |-> <<"steps:">>, key_questions |-> <<"[key questions]">>,
      evaluation_criteria |-> <<"[evaluation criteria]">>, tools |-> <<"[tools]">> ]

\* C12: the prompt of a problem-solving agent holds the steps as lines
\* "1. ", "2. ", ... in the order of the list, right after the steps header,
\* and the header of a list that is empty does not occur in the prompt.
C12_StepsNumberedEmptySectionsOmitted ==
    Rendered =>
        LET fw  == RenderedPersona.problem_solving_framework
            msg == ret.out.value.system_message
        IN  /\ Contains(msg, ListHeaders.steps \o NL \o
                              JoinWith([i \in 1..Len(fw.steps) |->
                                           <<ToString(i), ". ">> \o fw.steps[i]], NL) \o NL)
            /\ \A f \in DOMAIN ListHeaders : fw[f] = <<>> => ~Contains(msg, ListHeaders[f])

\* the lines of a text: the runs of tokens between "\n" tokens
RECURSIVE SplitLines(_)
SplitLines(s) ==
    LET breaks == {i \in 1..Len(s) : s[i] = "\n"} IN
    IF breaks = {} THEN <<s>>
    ELSE LET i == CHOOSE b \in breaks : \A c \in breaks : b <= c
         IN  <<SubSeq(s, 1, i - 1)>> \o SplitLines(SubSeq(s, i + 1, Len(s)))

\* a line that starts with the item prefix of its section: "i. " or "- "
IsItemLine(numbered, l) ==
    IF numbered
    THEN Len(l) >= 2 /\ l[2] = ". " /\ l[1] \in {ToString(k) : k \in 1..9}
    ELSE Len(l) >= 1 /\ l[1] = "- "

\* the items read back from a section: the item lines that follow the first
\* line equal to the header, each without its prefix
SectionItems(lines, header, numbered) ==
    LET at == CHOOSE i \in 1..Len(lines) :
                  lines[i] = header /\ \A j \in 1..(i - 1) : lines[j] # header
        n  == CHOOSE m \in 0..(Len(lines) - at) :
                  /\ \A k \in 1..m : IsItemLine(numbered, lines[at + k])
                  /\ (at + m + 1 <= Len(lines)) => ~IsItemLine(numbered, lines[at + m + 1])
    IN  [k \in 1..n |-> SubSeq(lines[at + k], IF numbered THEN 3 ELSE 2, Len(lines[at + k]))]

ParsePrompt(msg) ==
    LET lines == SplitLines(msg) IN
    [f \in DOMAIN ListHeaders |-> SectionItems(lines, ListHeaders[f], f = "steps")]

FrameworkLists(fw) == [f \in DOMAIN ListHeaders |-> fw[f]]

AllPopulated(fw) == \A f \in DOMAIN ListHeaders : fw[f] # <<>>

SingleLines(fw) ==
    \A f \in DOMAIN ListHeaders : \A i \in 1..Len(fw[f]) :
        \A j \in 1..Len(fw[f][i]) : fw[f][i][j] # "\n"

C14_ProblemSolverKnownPersonaOnly ==
    ret.op = "create_problem_solving_agent" =>
        LET P == ret.args[1] IN
        IF \E i \in 1..Len(reglog) : reglog[i] = <<"persona", P>>
        THEN /\ ret.out.ok
             /\ ret.out.value.name = P \o <<"_", "problem", "_", "solver">>
        ELSE IsUnknownPersonaError(ret.out, P)

C14_Witness ==
    /\ ret.op = "create_problem_solving_agent"
    /\ ret.args[1] = edison
    /\ Len(reglog) = 2
    /\ ret.out.ok
    /\ ret.out.value.name = <<"edison", "_", "problem", "_", "solver">>

\* C15: the personas picked for one discussion are pairwise different: at
\* every moment of the flow, and when the team of three is started, no two
\* of the agents built so far have the same name.
C15_DiscussionPersonasDistinct ==
    frame.flow = "discussion" =>
        /\ \A i, j \in 1..Len(frame.agents) :
              i # j => frame.agents[i].name # frame.agents[j].name
        /\ pc = "stream" => Len(frame.agents) = 3

----------------------------------------------------------------------------
(* Properties of the battle *)

NoDuplicate(seq) == \A i, j \in 1..Len(seq) : i # j => seq[i] # seq[j]

\* C16: in the selection of a battle the list of selected personas never
\* holds a duplicate; a line that chooses a persona already selected, and
\* any invalid line, leaves the list and the place as they are; any other
\* line appends the persona chosen; and the battle is built only with
\* exactly three different personas.
C16_BattleSelectionDistinct ==
    [][ /\ NoDuplicate(frame'.selected)
        /\ pc' \notin {"battle_select"} => Len(frame'.selected) = BattleSize
        /\ pc = "battle_select" =>
              LET r == ParseInt(event'.data)
                  fresh == /\ r.ok /\ 1 <= r.value /\ r.value <= Len(personas)
                           /\ \A i \in 1..Len(frame.selected) :
                                 frame.selected[i].name # personas[r.value][1]
              IN  IF fresh
                  THEN frame'.selected = Append(frame.selected, personas[r.value][2])
                  ELSE frame'.selected = frame.selected /\ pc' = "battle_select" ]_vars

C16_Witness ==
    /\ pc = "battle_select"
    /\ Len(frame.selected) = 2
    /\ event.data = <<"1">>
    /\ frame.selected[1].name = <<"alpha">>
    /\ printed[1] = <<"Sude ni sentaku sarete imasu.">>

\* C17: every solution that a participant's call returns is added, under the
\* participant's display name, after the solutions gathered before it, so the
\* judge's task holds one solution for each participant in the order of
\* selection, also when two participants have the same display name.
C17_JudgeSeesEverySolution ==
    [][ /\ (pc = "battle_await" /\ event'.kind = "returns") =>
              frame'.solutions =
                  Append(frame.solutions,
                         <<frame.selected[frame.index].display_name, event'.data>>)
        /\ pc' = "judge_await" =>
              /\ Len(frame'.solutions) = BattleSize
              /\ pending'.task = JudgeTask(frame'.solutions) ]_vars

----------------------------------------------------------------------------
(* Properties of the problem-solving session *)

\* the step issues a call to the collaborator
Issues == calls' # calls /\ calls' # <<>>

\* C18: in the battle and in the problem-solving session a call is issued
\* only when no call is outstanding or in the very step in which the
\* outstanding call returns, one call at a step, and the only outstanding
\* call is the one issued last; the session issues its calls as analyzer,
\* generator, evaluator, planner, one each, four when it completes.
C18_OneCallAtATime ==
    [][ /\ Issues =>
              /\ pending = NoPending \/ (event'.kind = "returns" /\ event'.at = pc)
              /\ calls' = Append(calls, pending') \/ calls' = <<pending'>>
        /\ pending' # NoPending => pending' = calls'[Len(calls')]
        /\ frame'.flow = "session" =>
              /\ Len(calls') <= 4
              /\ \A k \in 1..Len(calls') :
                    calls'[k].name =
                        << <<"problem", "_", "analyzer">>, <<"solution", "_", "generator">>,
                           <<"solution", "_", "evaluator">>, <<"action", "_", "planner">> >>[k]
              /\ (ret'.op = "solve_problem" /\ ret'.out.ok /\ pc' = "session_idle") =>
                    Len(calls') = 4 ]_vars

C18_Witness ==
    /\ frame.flow = "session"
    /\ pc = "session_idle"
    /\ sessions = 2
    /\ ret.op = "solve_problem" /\ ret.out.ok
    /\ Len(calls) = 4
    /\ Len(frame.problem_history) = 2

\* C19: the task of each later stage of the session depends on the response
\* to the stage before it: had that response been another one, the task
\* issued next would have been another one too.
C19_StagesConsumeResponses ==
    [][ (pc = "session_await" /\ event'.kind = "returns" /\ frame.index < 4) =>
            \E other \in Responses :
                /\ other # event'.data
                /\ SessionTask(frame.index + 1, SessionAbsorb(frame.index, frame, other))
                       # pending'.task ]_vars

----------------------------------------------------------------------------
(* Properties of the single-persona chat *)

\* line and word are the same up to the case of the letters
SameIgnoringCase(line, word) ==
    /\ Len(line) = Len(word)
    /\ \A i \in 1..Len(word) :
          line[i] = word[i] \/ (line[i] \in DOMAIN LowerChar /\ LowerChar[line[i]] = word[i])

\* C20: in the chat, a line equal to exit or quit up to case ends the loop
\* with the farewell and no call; any other line, the empty one included,
\* issues exactly one call on the chat's agent with the line as its task; and
\* when that call returns the chat reads the next line.
C20_ChatLoop ==
    [][ /\ (pc = "chat_input" /\ event'.kind = "line") =>
              IF \/ SameIgnoringCase(event'.data, <<"e", "x", "i", "t">>)
                 \/ SameIgnoringCase(event'.data, <<"q", "u", "i", "t">>)
              THEN /\ pc' = "MainMenu"
                   /\ calls' = calls
                   /\ pending' = NoPending
                   /\ printed'[1] = frame.persona_name \o <<": mata oai shimashou.">>
              ELSE /\ pc' = "chat_await"
                   /\ pending' = [agent |-> frame.agent.id, name |-> frame.agent.name,
                                  task |-> event'.data]
                   /\ calls' = Append(calls, pending')
                   /\ frame' = frame
        /\ (pc = "chat_await" /\ event'.kind = "returns") =>
              /\ pc' = "chat_input"
              /\ calls' = calls
              /\ frame' = frame ]_vars

C20_Witness ==
    /\ event = [at |-> "chat_input", kind |-> "line", data |-> <<"Q", "u", "i", "t">>]
    /\ pc = "MainMenu"
    /\ Len(calls) = 2
    /\ calls[1].task = <<>>
    /\ calls[2].task = <<"e", "x", "i", "t", " ">>

----------------------------------------------------------------------------
(* Properties of the specialized consultation *)

\* C21: in the consultation loop a line equal to exit up to case, and no
\* other line, ends the flow, with no call; every other line, quit included,
\* issues exactly one call on the specialist agent with the line as its task,
\* and when that call returns the loop reads the next line.
C21_ConsultationEndsOnExitOnly ==
    [][ /\ (pc = "consult_input" /\ event'.kind = "line") =>
              IF SameIgnoringCase(event'.data, <<"e", "x", "i", "t">>)
              THEN /\ pc' = "consult_returned"
                   /\ calls' = calls
                   /\ pending' = NoPending
              ELSE /\ pc' = "consult_await"
                   /\ pending' = [agent |-> frame.agent.id, name |-> frame.agent.name,
                                  task |-> event'.data]
                   /\ calls' = Append(calls, pending')
                   /\ frame' = frame
        /\ (pc = "consult_await" /\ event'.kind = "returns") =>
              /\ pc' = "consult_input"
              /\ calls' = calls
              /\ frame' = frame
        /\ pc' = "consult_returned" =>
              (pc = "consult_input" /\ SameIgnoringCase(event'.data, <<"e", "x", "i", "t">>))
      ]_vars

C21_Witness ==
    /\ pc = "consult_returned"
    /\ event.data = <<"E", "X", "I", "T">>
    /\ Len(calls) = 2
    /\ calls[1].task = <<"q", "u", "i", "t">>
    /\ calls[2].task = <<"Q", "u", "i", "t">>

\* C22: when the category is chosen the experts are the registered personas
\* whose category_prompts holds the category key, each once, in the order of
\* the registry; the agent is built for a persona of that list and the
\* chosen category; and with no expert every line typed at the persona
\* prompt leaves the flow at that prompt, with no agent built.
C22_ExpertsFilteredAndBinding ==
    [][ /\ (pc = "consult_category" /\ pc' = "consult_persona") =>
              LET ex  == frame'.experts
                  ck  == frame'.category_key
                  pos(k) == CHOOSE i \in 1..Len(personas) : personas[i][1] = k
              IN  /\ {ex[i] : i \in 1..Len(ex)} =
                        {personas[i] : i \in {j \in 1..Len(personas) :
                                                 ck \in DOMAIN personas[j][2].category_prompts}}
                  /\ \A i, j \in 1..Len(ex) : i < j => pos(ex[i][1]) < pos(ex[j][1])
        /\ (pc = "consult_persona" /\ pc' # "consult_persona") =>
              /\ pc' = "consult_input"
              /\ \E i \in 1..Len(frame.experts) :
                    /\ frame.experts[i][1] = frame'.persona_key
                    /\ i = ParseInt(event'.data).value
              /\ frame.category_key
                    \in DOMAIN DictGet(personas, frame'.persona_key).category_prompts
              /\ frame'.agent.name =
                    frame'.persona_key \o <<"_">> \o frame.category_key \o <<"_", "specialist">>
              /\ nagents' = nagents + 1
        /\ (pc = "consult_persona" /\ frame.experts = <<>>) =>
              /\ pc' = "consult_persona"
              /\ frame' = frame
              /\ nagents' = nagents
              /\ ret' = ret ]_vars

\* three personas registered, none with a prompt for the category chosen
C22_Witness ==
    /\ pc = "consult_persona"
    /\ Len(personas) = 3
    /\ frame.experts = <<>>
    /\ event = [at |-> "consult_persona", kind |-> "line", data |-> <<"1">>]
    /\ nagents = 0

----------------------------------------------------------------------------
(* Properties of the scenario flow *)

\* C23: in the scenario flow the calls issued are, in this order, one call on
\* the flow's agent for each canned question of the chosen category; while
\* they are awaited no line is read; the flow is over, back at the menu, when
\* the last of them has returned; and for a category without canned
\* questions (one added by register_category) the agent is built and the
\* flow is over at once with no call.
C23_ScenarioOneCallPerQuestion ==
    [][ frame.flow = "scenario" =>
          /\ frame'.flow = "scenario" =>
                LET qs == ScenarioQuestions(frame'.category_key) IN
                /\ Len(calls') <= Len(qs)
                /\ Len(calls') <= Len(calls) + 1
                /\ \A k \in 1..Len(calls') :
                      calls'[k] = [agent |-> frame'.agent.id, name |-> frame'.agent.name,
                                   task |-> qs[k]]
                /\ pc' = "scenario_await" => pending' = calls'[Len(calls')]
          /\ pc = "scenario_await" =>
                /\ event'.kind \in {"returns", "raises"}
                /\ (event'.kind = "returns" /\ pc' = "MainMenu") =>
                      Len(calls) = Len(ScenarioQuestions(frame.category_key))
                /\ (event'.kind = "returns" /\ pc' # "MainMenu") =>
                      (pc' = "scenario_await" /\ Len(calls') = Len(calls) + 1)
          /\ (pc = "select_category" /\ pc' # "select_category") =>
                LET key == categories[ParseInt(event'.data).value][1] IN
                IF key \in {DefaultCategories[i][1] : i \in 1..Len(DefaultCategories)}
                THEN pc' = "scenario_await" /\ Len(calls') = 1
                ELSE /\ pc' = "MainMenu"
                     /\ calls' = <<>>
                     /\ pending' = NoPending
                     /\ nagents' = nagents + 1 ]_vars

\* the ninth category, registered by a client, was chosen
C23_Witness ==
    /\ pc = "MainMenu"
    /\ event = [at |-> "select_category", kind |-> "line", data |-> <<"9">>]
    /\ Len(categories) = 9
    /\ calls = <<>>
    /\ nagents = 1

----------------------------------------------------------------------------
(* Properties of the discussion *)

\* C24: each persona chosen for a discussion adds its agent and its display
\* name at the end of the two lists; when the third is chosen the team is
\* started, once, with the three agents in that order, a budget of 6 turns
\* and the topic as its task; a message with content whose source is the name
\* of one of the agents is printed as "display name: content" for the persona
\* that agent was built for; every other message prints nothing.
C24_DiscussionStreamAttributed ==
    [][ frame.flow = "discussion" =>
          /\ (pc = "select_persona" /\ frame'.agents # frame.agents) =>
                LET key == personas[ParseInt(event'.data).value][1] IN
                /\ frame'.agents =
                      Append(frame.agents,
                             [ id |-> nagents + 1,
                               name |-> key \o <<"_">> \o frame.category_key,
                               system_message |->
                                   create_agent(key, frame.category_key).value.system_message ])
                /\ frame'.agent_names = Append(frame.agent_names, personas[
                       ParseInt(event'.data).value][2].display_name)
          /\ (pc # "stream" /\ pc' = "stream") =>
                /\ Len(frame'.agents) = 3
                /\ pending'.participants = frame'.agents
                /\ pending'.max_turns = 6
                /\ pending'.name = <<"RoundRobinGroupChat">>
                /\ calls' = <<pending'>>
          /\ pc = "stream" => calls' = calls
          /\ (pc = "stream" /\ event'.kind = "message") =>
                LET msg  == event'.data
                    from == {i \in 1..Len(personas) :
                                personas[i][1] \o <<"_">> \o frame.category_key = msg.source}
                IN  IF msg.content # <<>>
                       /\ \E a \in 1..3 : pending.participants[a].name = msg.source
                    THEN \E i \in from :
                            printed' = << personas[i][2].display_name \o <<": ">>
                                              \o msg.content >>
                    ELSE printed' = <<>> ]_vars

\* three different personas; the third one's agent has just spoken
C24_Witness ==
    /\ pc = "stream"
    /\ frame.flow = "discussion"
    /\ frame.agents[1].name # frame.agents[2].name
    /\ frame.agents[2].name # frame.agents[3].name
    /\ frame.agents[1].name # frame.agents[3].name
    /\ event.kind = "message"
    /\ event.data.source = frame.agents[3].name
    /\ printed = << frame.agent_names[3] \o <<": ", "reply A">> >>

----------------------------------------------------------------------------
(* Properties of the catalog as a whole *)

\* C25: once the factory is constructed, no step of any flow, whether its
\* calls return or raise, and no create_agent, create_problem_solving_agent,
\* create_specialized_agent or listing call changes the persona registry or
\* the category registry: only a register_* call made by a client does.
C25_CatalogReadOnlyAfterConstruction ==
    [][ (pc # "start" /\ reglog' = reglog) =>
            (personas' = personas /\ categories' = categories) ]_vars

\* two flows were run from the menu and a call of one of them failed
C25_Witness ==
    /\ program = "basic"
    /\ pc = "MainMenu"
    /\ sessions = 2
    /\ failed # {}
    /\ nagents >= 4
    /\ personas = DefaultPersonas
    /\ categories = DefaultCategories

\* C26: a statement of the client that adds, replaces or deletes an entry of
\* a dictionary it got from the personas or the categories property leaves
\* both registries as they were, so the registered keys, the listing and the
\* result of create_agent for every pair of keys are the same after it as
\* before it; and the dictionary handed out held the registry's entries.
C26_PropertiesReturnCopies ==
    [][ /\ (ret'.op \in {"personas", "categories"} /\ ret'.replaced /\ ~ret.replaced) =>
              /\ ret'.out.value.items # ret.out.value.items
              /\ [i \in 1..Len(personas') |-> personas'[i][1]]
                    = [i \in 1..Len(personas) |-> personas[i][1]]
              /\ [i \in 1..Len(categories') |-> categories'[i][1]]
                    = [i \in 1..Len(categories) |-> categories[i][1]]
              /\ get_available_personas' = get_available_personas
              /\ \A pk \in QueryPersonaKeys, ck \in QueryCategoryKeys :
                    create_agent(pk, ck)' = create_agent(pk, ck)
        /\ (ret'.op = "personas" /\ ~ret'.replaced) => ret'.out.value.items = personas
        /\ (ret'.op = "categories" /\ ~ret'.replaced) => ret'.out.value.items = categories
      ]_vars

\* edison was deleted from the dictionary handed out; the factory still has it
C26_Witness ==
    /\ program = "basic"
    /\ ret.op = "personas"
    /\ ret.replaced
    /\ \A i \in 1..Len(ret.out.value.items) : ret.out.value.items[i][1] # edison
    /\ \E i \in 1..Len(personas) : personas[i][1] = edison
    /\ Len(personas) = 10

\* C27: after a persona or a category is registered again under a key that
\* is already present, the listing has the same keys at the same numbers as
\* before, every other entry is what it was, and the entry at the key's
\* number shows the newly registered content.
C27_ReRegistrationKeepsPosition ==
    /\ (ret.op = "register_persona" /\ ret.replaced) =>
          /\ Len(get_available_personas) = Len(ret.before)
          /\ \A i \in 1..Len(ret.before) :
                /\ get_available_personas[i][1] = ret.before[i][1]
                /\ get_available_personas[i][2] =
                      IF ret.before[i][1] = ret.args[1].name THEN ret.args[1].display_name
                      ELSE ret.before[i][2].display_name
    /\ (ret.op = "register_category" /\ ret.replaced) =>
          /\ Len(get_available_categories) = Len(ret.before)
          /\ \A i \in 1..Len(ret.before) :
                get_available_categories[i] =
                    IF ret.before[i][1] = ret.args[1] THEN <<ret.args[1], ret.args[2]>>
                    ELSE ret.before[i]

\* the default persona listed second is registered again with another name shown
C27_Witness ==
    /\ program = "basic"
    /\ ret.op = "register_persona"
    /\ ret.replaced
    /\ ret.args[1].name = edison
    /\ Len(personas) = 9
    /\ get_available_personas[2] = <<edison, <<"Display Two">> >>
    /\ ret.before[2][2].display_name # <<"Display Two">>

----------------------------------------------------------------------------
(* Properties of the session's histories and result *)

\* C28: the two histories of a session have the same length whenever the
\* session waits or is idle; the step in which the fourth stage returns
\* appends the problem to problem_history and the selected solution to
\* solution_history; every other step, a stage that raises included, leaves
\* both as they are.
C28_HistoriesInStep ==
    /\ [](Len(frame.problem_history) = Len(frame.solution_history))
    /\ [][ IF pc = "session_await" /\ event'.kind = "returns" /\ frame.index = 4
           THEN /\ frame'.problem_history = Append(frame.problem_history, frame.problem)
                /\ frame'.solution_history =
                       Append(frame.solution_history, ret'.out.value.solution)
                /\ ret'.out.ok /\ ret'.out.value.problem = frame.problem
           ELSE /\ frame'.problem_history = frame.problem_history
                /\ frame'.solution_history = frame.solution_history ]_vars

\* one call completed, then one failed at its third stage
C28_Witness ==
    /\ pc = "session_idle"
    /\ sessions = 2
    /\ ret.op = "solve_problem" /\ ~ret.out.ok
    /\ event.kind = "raises"
    /\ Len(calls) = 3
    /\ Len(frame.problem_history) = 1
    /\ Len(frame.solution_history) = 1

----------------------------------------------------------------------------
(* Properties of a battle started from the menu *)

\* C30: when the call for the k-th participant of a battle raises, the calls
\* issued are the k solution calls and no other, none is pending and none is
\* issued in that step, nothing of a judgment is printed, and the program is
\* at the main menu, which it prints after the failure's line.
C30_FailedSolutionEndsBattle ==
    [][ (pc = "battle_await" /\ event'.kind = "raises") =>
          /\ pc' = "MainMenu"
          /\ pending' = NoPending
          /\ calls' = calls
          /\ Len(calls) \in 1..3
          /\ \A k \in 1..Len(calls) :
                /\ calls[k].name = frame.selected[k].name \o <<"_", "battler">>
                /\ calls[k].name # <<"judge">>
          /\ \A i \in 1..Len(printed') : printed'[i] \notin {JudgmentLines(<<>>)[k] : k \in 1..3}
          /\ Len(printed') = 3
          /\ printed'[2] = MainMenuBanner /\ printed'[3] = MainMenuPrompt
          /\ ~ret'.out.ok ]_vars

\* the second participant's call failed
C30_Witness ==
    /\ pc = "MainMenu"
    /\ event.at = "battle_await"
    /\ event.kind = "raises"
    /\ Len(calls) = 2
    /\ frame = NoFrame
    /\ ret.op = "battle" /\ ~ret.out.ok
    /\ Cardinality(failed) = 1

====
